---------------------------- MODULE Spec2Model ----------------------------
(***************************************************************************)
(* A model of AOIetl (src/src/aoietl): the granule locator, the spatial    *)
(* index builders, the AOI filter, the vector subsetter, the validator     *)
(* and the tier orchestrators (process, process_fsspec, process_on_blobs). *)
(*                                                                         *)
(* File names are sequences of one-character strings, so that the regular  *)
(* expressions and Path.suffix are computed as the code computes them.     *)
(* Geometries are sets of lattice points of a small integer grid: two      *)
(* closed rectangles with integer corners intersect (boundary included)    *)
(* exactly when they share a lattice point.                                *)
(***************************************************************************)
EXTENDS Integers, Sequences, FiniteSets, TLC

VARIABLES
    pc,               \* position of the modelled call or run
    listing,          \* root_path/dataset_name as iterdir() yields it
    dir_exists,       \* whether the dataset directory exists
    dataset_name,     \* argument of list_rasters_for_date
    config_date,      \* argument of list_rasters_for_date (config.date)
    matching_files,   \* value returned by list_rasters_for_date
    paths,            \* raster_paths / hdf_paths given to an index builder
    fs,               \* whether a filesystem handle is given to the builder
    built,            \* outcome of the index builder: an index or an error
    tile_index_gdf,   \* the index given to filter_tiles_by_aoi
    aoi_gdf,          \* the features of the AOI
    azureRoot,        \* config.azureRoot is set (local-path mode)
    filtered_tiles,   \* value returned by filter_tiles_by_aoi
    refiltered,       \* value returned by a second pass over the records kept
    vector_path,      \* suffix of the vector source
    source_gdf,       \* the features of the vector source
    gdf,              \* outcome of the vector subsetter
    directories,      \* config.directories, in the key order of the directive
    valid,            \* outcome of validate_directories
    entry,            \* the entry point that runs
    error_for_missing_files,  \* the policy flag the entry point was given
    source,           \* the tier containers: dataset directories, files, sidecars
    staging,          \* the blobs of the container staging-data
    output,           \* the files written under the local output directory
    events,           \* the kinds of storage access made so far
    processed,        \* the declared items handled so far, in order
    pos,              \* tier, kind and item the tier loop stands at
    rasters,          \* local variable of process_rasters_using_paths
    hdf_tiles,        \* local variable of process_hdf_files_using_paths
    raised,           \* the exception that ended the run
    directive,        \* the parsed YAML document of the directive file
    environ,          \* whether AZURE_ACCOUNT_NAME and AZURE_ACCOUNT_KEY are set
    config,           \* outcome of build_config: a DataConfig or an error
    handle,           \* outcome of reading config.fs
    tier_roots,       \* outcome of reading config.tier_roots
    share_call,       \* the file-share function that runs
    share_calls,      \* how many times it has been called
    share_blobs,      \* the blobs of the container reference / the local files
    share_reference,  \* the share has a directory reference
    share_files,      \* the files under reference/ on the share, with content
    share_cache,      \* the files under /tmp left by download_and_upload
    share_pending,    \* the objects it has still to transfer
    share_running,    \* the objects a worker of the pool is transferring
    share_uploaded,   \* the uploads made, in order
    share_failed,     \* the objects whose download or upload raised
    share_result      \* how the call ended

locVars == <<listing, dir_exists, dataset_name, config_date, matching_files>>

idxVars == <<paths, fs, built>>

fltVars == <<tile_index_gdf, filtered_tiles, refiltered>>

aoiVars == <<aoi_gdf, azureRoot>>

vecVars == <<vector_path, source_gdf, gdf>>

valVars == <<directories, valid>>

runVars == <<entry, error_for_missing_files, source, staging, output, events,
             processed, pos, rasters, hdf_tiles, raised>>

dcVars == <<directive, environ, config, handle, tier_roots>>

shVars == <<share_call, share_calls, share_blobs, share_reference, share_files,
            share_cache, share_pending, share_running, share_uploaded, share_failed,
            share_result>>

miscVars == <<dcVars, shVars>>

vars == <<pc, locVars, idxVars, fltVars, aoiVars, vecVars, valVars, runVars, miscVars>>

Idle == "idle"

LocIdle ==
    /\ listing = Idle
    /\ dir_exists = Idle
    /\ dataset_name = Idle
    /\ config_date = Idle
    /\ matching_files = Idle

DcIdle ==
    /\ directive = Idle
    /\ environ = Idle
    /\ config = Idle
    /\ handle = Idle
    /\ tier_roots = Idle

ShIdle ==
    /\ share_call = Idle
    /\ share_calls = Idle
    /\ share_blobs = Idle
    /\ share_reference = Idle
    /\ share_files = Idle
    /\ share_cache = Idle
    /\ share_running = Idle
    /\ share_pending = Idle
    /\ share_uploaded = Idle
    /\ share_failed = Idle
    /\ share_result = Idle

MiscIdle == DcIdle /\ ShIdle

IdxIdle == paths = Idle /\ fs = Idle /\ built = Idle

FltIdle == tile_index_gdf = Idle /\ filtered_tiles = Idle /\ refiltered = Idle

AoiIdle == aoi_gdf = Idle /\ azureRoot = Idle

VecIdle == vector_path = Idle /\ source_gdf = Idle /\ gdf = Idle

ValIdle == directories = Idle /\ valid = Idle

RunIdle ==
    /\ entry = Idle /\ error_for_missing_files = Idle /\ source = Idle
    /\ staging = Idle /\ output = Idle /\ events = Idle /\ processed = Idle
    /\ pos = Idle /\ rasters = Idle /\ hdf_tiles = Idle /\ raised = Idle

None == "None"

\* re.search returning None (a match's group(1) is never empty)
NoMatch == <<>>

(***************************************************************************)
(* Bounds of the model.                                                    *)
(***************************************************************************)
MaxFiles == 2        \* entries of one dataset directory

MaxBatch == 2        \* granules of one batch given to an index builder

MaxFeatures == 2     \* features of one vector source

MaxIds == 2          \* raster identifiers one tier declares

GridMax == 3         \* coordinates of the lattice are 0..GridMax

(***************************************************************************)
(* Characters and strings.                                                 *)
(***************************************************************************)
Digit == {"0", "1", "2", "3", "4", "5", "6", "7", "8", "9"}

DigitChar == <<"0", "1", "2", "3", "4", "5", "6", "7", "8", "9">>

Letter ==
    {"A", "B", "C", "D", "E", "F", "G", "H", "I", "J", "K", "L", "M",
     "N", "O", "P", "Q", "R", "S", "T", "U", "V", "W", "X", "Y", "Z",
     "a", "b", "c", "d", "e", "f", "g", "h", "i", "j", "k", "l", "m",
     "n", "o", "p", "q", "r", "s", "t", "u", "v", "w", "x", "y", "z"}

\* the regular-expression class \w
Word == Letter \cup Digit \cup {"_"}

Pow10(k) == IF k = 0 THEN 1 ELSE IF k = 1 THEN 10 ELSE IF k = 2 THEN 100
            ELSE IF k = 3 THEN 1000 ELSE IF k = 4 THEN 10000 ELSE 100000

\* n printed in base ten, zero-padded to w characters (%Y, %m, %d, {row}{col})
Pad(n, w) == [k \in 1..w |-> DigitChar[((n \div Pow10(w - k)) % 10) + 1]]

\* lit occurs in s at position i
LitAt(s, i, lit) ==
    /\ i >= 1
    /\ i + Len(lit) - 1 <= Len(s)
    /\ \A k \in 1..Len(lit) : s[i + k - 1] = lit[k]

\* s[i .. i+n-1] are n digits (\d{n})
DigitsAt(s, i, n) ==
    /\ i >= 1
    /\ i + n - 1 <= Len(s)
    /\ \A k \in i..(i + n - 1) : s[k] \in Digit

\* Python's `lit in s`
Contains(s, lit) == \E i \in 1..Len(s) : LitAt(s, i, lit)

SetMin(S) == CHOOSE x \in S : \A y \in S : x <= y

SetMax(S) == CHOOSE x \in S : \A y \in S : x >= y

\* the index of the last "." of s, 0 when there is none (str.rfind, 1-based)
RFindDot(s) ==
    LET I == {i \in 1..Len(s) : s[i] = "."}
    IN  IF I = {} THEN 0 ELSE SetMax(I)

\* pathlib's PurePath.suffix: the text from the last dot, unless the dot is
\* the first or the last character of the name
Suffix(name) ==
    LET i == RFindDot(name)
    IN  IF 1 < i /\ i < Len(name) THEN SubSeq(name, i, Len(name)) ELSE <<>>

\* PurePath.with_suffix on a name that has a suffix
WithSuffix(name, suffix) ==
    LET i == RFindDot(name)
    IN  IF 1 < i /\ i < Len(name)
        THEN SubSeq(name, 1, i - 1) \o suffix
        ELSE name \o suffix

TIF == <<".", "t", "i", "f">>

JSON == <<".", "j", "s", "o", "n">>

US == <<"_">>

(***************************************************************************)
(* Dates and the file-name grammars of the archive.                        *)
(***************************************************************************)
DateLen == 8         \* \d{8}

TimeLen == 6         \* \d{6} after the T

PathRowLen == 6      \* \d{6} path/row of a Landsat name

Date(y, m, d) == [year |-> y, month |-> m, day |-> d]

Day1 == Date(2025, 4, 1)

Day2 == Date(2025, 4, 2)

Dates == {Day1, Day2}

\* config_date.strftime("%Y%m%d")
strftime(date) == Pad(date.year, 4) \o Pad(date.month, 2) \o Pad(date.day, 2)

\* A Sentinel-2 product name: platform_MSIL2A_<acq>T015631_<orbit>_<tile>_<proc>T043813.tif
S2ProductName(acq, proc) ==
    <<"S", "2", "A">> \o US \o <<"M", "S", "I", "L", "2", "A">> \o US
    \o strftime(acq) \o <<"T">> \o Pad(15631, TimeLen) \o US
    \o <<"R", "1", "1", "7">> \o US
    \o <<"T", "5", "1", "L", "W", "C">> \o US
    \o strftime(proc) \o <<"T">> \o Pad(43813, TimeLen) \o TIF

\* sentinel_filename of the tile generator: both tokens come from one date
sentinel_filename(date) == S2ProductName(date, date)

\* landsat_filename of the tile generator
landsat_filename(date) ==
    <<"L", "C", "0", "8">> \o US \o <<"L", "2", "S", "P">> \o US
    \o Pad(120034, PathRowLen) \o US \o strftime(date) \o US
    \o <<"0", "2">> \o US \o <<"T", "1">> \o TIF

\* f"{fname[:-4]}_tile{row}{col}.tif"
TileName(fname, row, col) ==
    SubSeq(fname, 1, Len(fname) - 4) \o US \o <<"t", "i", "l", "e">>
    \o Pad(row, 1) \o Pad(col, 1) \o TIF

(***************************************************************************)
(* re.search(r"S2.\w+_(\d{8})T\d{6}_", name)                               *)
(***************************************************************************)
\* _(\d{8})T\d{6}_ with its first underscore at position j
S2TailAt(s, j) ==
    /\ LitAt(s, j, US)
    /\ DigitsAt(s, j + 1, DateLen)
    /\ LitAt(s, j + 1 + DateLen, <<"T">>)
    /\ DigitsAt(s, j + 2 + DateLen, TimeLen)
    /\ LitAt(s, j + 2 + DateLen + TimeLen, US)

\* the positions at which \w+ may end when the match starts at i
S2WordEnds(s, i) ==
    {e \in (i + 3)..Len(s) :
        /\ \A k \in (i + 3)..e : s[k] \in Word
        /\ S2TailAt(s, e + 1)}

\* the positions at which S2.\w+_... matches
S2Starts(s) ==
    {i \in 1..Len(s) :
        /\ LitAt(s, i, <<"S", "2">>)
        /\ i + 2 <= Len(s)
        /\ s[i + 2] # "\n"
        /\ S2WordEnds(s, i) # {}}

\* the variant in which \w+ is not greedy (\w+?)
S2SearchLazy(s) ==
    IF S2Starts(s) = {} THEN NoMatch
    ELSE LET i == SetMin(S2Starts(s))
             e == SetMin(S2WordEnds(s, i))
         IN  SubSeq(s, e + 2, e + 1 + DateLen)

\* group(1) of the leftmost match, \w+ taking as much as it can; NoMatch
\* when the pattern matches nowhere
S2Search(s) ==
    IF S2Starts(s) = {} THEN NoMatch
    ELSE LET i == SetMin(S2Starts(s))
             e == SetMax(S2WordEnds(s, i))
         IN  SubSeq(s, e + 2, e + 1 + DateLen)

(***************************************************************************)
(* re.search(r"LC.._L2SP_\d{6}_(\d{8})_", name)                            *)
(***************************************************************************)
LCMatchAt(s, i) ==
    /\ LitAt(s, i, <<"L", "C">>)
    /\ i + 3 <= Len(s)
    /\ s[i + 2] # "\n"
    /\ s[i + 3] # "\n"
    /\ LitAt(s, i + 4, <<"_", "L", "2", "S", "P", "_">>)
    /\ DigitsAt(s, i + 10, PathRowLen)
    /\ LitAt(s, i + 10 + PathRowLen, US)
    /\ DigitsAt(s, i + 11 + PathRowLen, DateLen)
    /\ LitAt(s, i + 11 + PathRowLen + DateLen, US)

LCSearch(s) ==
    LET I == {i \in 1..Len(s) : LCMatchAt(s, i)}
    IN  IF I = {} THEN NoMatch
        ELSE LET i == SetMin(I)
             IN  SubSeq(s, i + 11 + PathRowLen, i + 10 + PathRowLen + DateLen)

(***************************************************************************)
(* list_rasters_for_date                                                   *)
(***************************************************************************)
\* the variant that finds a missing directory empty
iterdirOrEmpty(exists, entries) ==
    [status |-> "ok", entries |-> IF exists THEN entries ELSE <<>>]

\* root_path.joinpath(dataset_name).iterdir(): the entries of the directory,
\* a FileNotFoundError when there is no such directory
iterdir(exists, entries) ==
    IF exists THEN [status |-> "ok", entries |-> entries]
    ELSE [status |-> "raise", entries |-> <<>>]

\* the variant that keeps every file, whatever its suffix
IsRasterFileAnySuffix(x) == x.is_file

\* x.is_file() and x.suffix == '.tif'
IsRasterFile(x) == x.is_file /\ Suffix(x.name) = TIF

\* the date the loop body extracts from one name, NoMatch for `match = None`
ExtractDate(name) ==
    IF Contains(name, <<"S", "2">>) THEN S2Search(name)
    ELSE IF Contains(name, <<"L", "C">>) THEN LCSearch(name)
    ELSE NoMatch

\* dataset_name only selects the directory that was listed; the entries of
\* that directory are `entries`, in iterdir() order
list_rasters_for_date(entries, dataset, date) ==
    LET raster_files == SelectSeq(entries, IsRasterFile)
        target_date_str == strftime(date)
        Keep(f) == ExtractDate(f.name) # NoMatch
                   /\ ExtractDate(f.name) = target_date_str
    IN  SelectSeq(raster_files, Keep)

(***************************************************************************)
(* The directory entries the locator is run on.                            *)
(***************************************************************************)
File(name) == [name |-> name, is_file |-> TRUE]

Dir(name) == [name |-> name, is_file |-> FALSE]

\* the names the tile generator writes for one date
ScriptNames(date) ==
    {sentinel_filename(date), TileName(sentinel_filename(date), 0, 0),
     TileName(sentinel_filename(date), 1, 2),
     landsat_filename(date), TileName(landsat_filename(date), 0, 0),
     TileName(landsat_filename(date), 1, 2)}

\* Sentinel-2 products processed on another day than they were acquired
TwoDateNames ==
    {S2ProductName(Day1, Day2), TileName(S2ProductName(Day1, Day2), 0, 0),
     TileName(S2ProductName(Day2, Day1), 0, 0)}

\* a Landsat product name whose text after the date holds the characters S2
LandsatNameWithS2(date) ==
    SubSeq(landsat_filename(date), 1, Len(landsat_filename(date)) - 4)
    \o US \o <<"S", "2">> \o TIF

LocatorEntries ==
    {File(TileName(sentinel_filename(Day1), 0, 0)),
     File(LandsatNameWithS2(Day1)),
     File(TileName(sentinel_filename(Day2), 1, 2)),
     File(sentinel_filename(Day1)),
     File(TileName(landsat_filename(Day1), 0, 0)),
     File(TileName(landsat_filename(Day2), 1, 2)),
     File(landsat_filename(Day2)),
     File(WithSuffix(TileName(landsat_filename(Day1), 0, 0), JSON)),
     File(WithSuffix(sentinel_filename(Day1), <<".", "T", "I", "F">>)),
     Dir(TileName(sentinel_filename(Day1), 1, 2)),
     File(<<"r", "e", "a", "d", "m", "e">> \o TIF)}
    \cup {File(n) : n \in TwoDateNames}

\* the sequences without repetition of at most n elements of S
RECURSIVE Listings(_, _)
Listings(S, n) ==
    IF n = 0 THEN {<<>>}
    ELSE {<<>>} \cup
         UNION {{<<x>> \o l : l \in Listings(S \ {x}, n - 1)} : x \in S}

RasterDatasets == {"sentinel2", "landsat"}

Range(s) == {s[i] : i \in 1..Len(s)}

LocatorInit ==
    /\ pc = "list_rasters_for_date"
    /\ dir_exists \in BOOLEAN
    /\ listing \in (IF dir_exists THEN Listings(LocatorEntries, MaxFiles) ELSE {<<>>})
    /\ dataset_name \in RasterDatasets
    /\ config_date \in Dates
    /\ matching_files = None
    /\ MiscIdle /\ IdxIdle /\ FltIdle /\ AoiIdle /\ VecIdle /\ ValIdle /\ RunIdle

\* one call of list_rasters_for_date; the exception of iterdir() leaves the
\* function
ListRasters ==
    /\ pc = "list_rasters_for_date"
    /\ LET d == iterdir(dir_exists, listing)
       IN  IF d.status = "raise"
           THEN pc' = "FileNotFoundError" /\ matching_files' = matching_files
           ELSE /\ matching_files' =
                     list_rasters_for_date(d.entries, dataset_name, config_date)
                /\ pc' = "returned"
    /\ UNCHANGED <<listing, dir_exists, dataset_name, config_date>>
    /\ UNCHANGED <<idxVars, fltVars, aoiVars, vecVars, valVars, runVars, miscVars>>

SpecLocator == LocatorInit /\ [][ListRasters]_vars

\* every name of the archive that the generator writes
ScriptGenerated == UNION {ScriptNames(d) : d \in Dates}

\* the Sentinel-2 names (with or without a _tileNN suffix) acquired on `acq`
S2NamesAcquired(acq) ==
    UNION {{S2ProductName(acq, proc), TileName(S2ProductName(acq, proc), 0, 0),
            TileName(S2ProductName(acq, proc), 1, 2)} : proc \in Dates}

\* every tile of the directory carries one date only
OneDatePerTile(entries) == \A e \in Range(entries) : e.name \notin TwoDateNames

C10_AcquisitionDateDecides ==
    pc = "returned" =>
        \A e \in Range(listing) : \A acq \in Dates :
            (e.is_file /\ e.name \in S2NamesAcquired(acq)) =>
                ((e \in Range(matching_files)) <=> (acq = config_date))

\* C12: on an existing directory with no name carrying the target date the
\* locator returns the empty list; on a missing directory it does not
\* return but raises FileNotFoundError (it has no policy parameter: the
\* flag is the caller's).
C12_EmptyOrLookupMiss ==
    /\ (pc = "returned" /\ \A e \in Range(listing) :
                              ~Contains(e.name, strftime(config_date)))
          => matching_files = <<>>
    /\ pc = "returned" => dir_exists
    /\ pc = "FileNotFoundError" => ~dir_exists

C12_Witness ==
    /\ pc = "FileNotFoundError"
    /\ ~dir_exists
    /\ matching_files = None

\* the name conforms to the grammar of the dataset's family
ConformsTo(dataset, name) ==
    IF dataset = "landsat" THEN LCSearch(name) # NoMatch ELSE S2Search(name) # NoMatch

\* C28: the grammar applied to a file is the one of the dataset the locator
\* was called with: for landsat a .tif file that conforms to the Landsat
\* grammar with the target date is returned, also when its name holds the
\* characters S2, and no returned file conforms only to the grammar of the
\* other family.
C28_GrammarByDataset ==
    pc = "returned" =>
        \A e \in Range(listing) :
            /\ (dataset_name = "landsat" /\ IsRasterFile(e)
                   /\ LCSearch(e.name) = strftime(config_date))
                  => e \in Range(matching_files)
            /\ e \in Range(matching_files) => ConformsTo(dataset_name, e.name)

(***************************************************************************)
(* list_hdf_for_date.  process.py, process_on_blobs.py and the tests       *)
(* import it from build_paths.py, which does not define it; it is modelled *)
(* from the specification and from test_list_hdf_for_date_with_temp_files: *)
(* the files with suffix .hdf or .nc whose first match of \d{8} is the     *)
(* target date.                                                            *)
(***************************************************************************)
HDF == <<".", "h", "d", "f">>

NC == <<".", "n", "c">>

\* the variant that takes the last run of eight digits
HdfSearchLast(s) ==
    LET I == {i \in 1..Len(s) : DigitsAt(s, i, DateLen)}
    IN  IF I = {} THEN NoMatch ELSE SubSeq(s, SetMax(I), SetMax(I) + DateLen - 1)

\* group(0) of re.search(r"\d{8}", name): the leftmost eight digits in a row
HdfSearch(s) ==
    LET I == {i \in 1..Len(s) : DigitsAt(s, i, DateLen)}
    IN  IF I = {} THEN NoMatch ELSE SubSeq(s, SetMin(I), SetMin(I) + DateLen - 1)

IsHdfFile(x) == x.is_file /\ Suffix(x.name) \in {HDF, NC}

list_hdf_for_date(entries, dataset, date) ==
    LET hdf_files == SelectSeq(entries, IsHdfFile)
        target_date_str == strftime(date)
        Keep(f) == HdfSearch(f.name) # NoMatch /\ HdfSearch(f.name) = target_date_str
    IN  SelectSeq(hdf_files, Keep)

\* ICESat-2 granule names: a product prefix, the date, and what follows it
ATL == <<"A", "T", "L", "0", "8", "_">>

\* the names whose first run of eight digits is the date `d`
HdfNamesDated(d) ==
    {ATL \o strftime(d) \o <<"0", "9", "0", "9", "3", "7">> \o US \o <<"0", "6">> \o NC,
     ATL \o strftime(d) \o US \o <<"v", "1">> \o HDF,
     <<"d", "a", "t", "a", "_">> \o strftime(d) \o NC}
    \cup {ATL \o strftime(d) \o US \o strftime(e) \o HDF : e \in Dates \ {d}}

\* names with the date `d` somewhere that are no granule of that date by
\* their first run of digits or by their suffix
HdfNamesOther(d) ==
    {ATL \o <<"7">> \o strftime(d) \o NC,
     ATL \o strftime(d) \o <<".", "t", "x", "t">>,
     ATL \o strftime(d) \o <<".", "H", "D", "F">>,
     <<"n", "o", "_", "d", "a", "t", "e">> \o NC}

HdfLocatorEntries ==
    {File(n) : n \in UNION {HdfNamesDated(d) \cup HdfNamesOther(d) : d \in Dates}}
    \cup {Dir(ATL \o strftime(Day1) \o HDF)}

HdfLocatorInit ==
    /\ pc = "list_hdf_for_date"
    /\ dir_exists \in BOOLEAN
    /\ listing \in (IF dir_exists THEN Listings(HdfLocatorEntries, MaxFiles) ELSE {<<>>})
    /\ dataset_name = "icesat2"
    /\ config_date \in Dates
    /\ matching_files = None
    /\ MiscIdle /\ IdxIdle /\ FltIdle /\ AoiIdle /\ VecIdle /\ ValIdle /\ RunIdle

\* one call of list_hdf_for_date
ListHdf ==
    /\ pc = "list_hdf_for_date"
    /\ LET d == iterdir(dir_exists, listing)
       IN  IF d.status = "raise"
           THEN pc' = "FileNotFoundError" /\ matching_files' = matching_files
           ELSE /\ matching_files' =
                     list_hdf_for_date(d.entries, dataset_name, config_date)
                /\ pc' = "returned_hdf"
    /\ UNCHANGED <<listing, dir_exists, dataset_name, config_date>>
    /\ UNCHANGED <<idxVars, fltVars, aoiVars, vecVars, valVars, runVars, miscVars>>

SpecHdfLocator == HdfLocatorInit /\ [][ListHdf]_vars

\* C11: list_hdf_for_date returns exactly the files of the directory with
\* suffix .hdf or .nc whose first run of eight digits is the target date, in
\* listing order; files of another date, without such a run, of another
\* suffix, or whose matching run follows an earlier run are left out.
C11_HdfLocatorExact ==
    pc = "returned_hdf" =>
        LET Dated(e) == e.is_file /\ e.name \in HdfNamesDated(config_date)
        IN  matching_files = SelectSeq(listing, Dated)

C11_Witness ==
    /\ pc = "returned_hdf"
    /\ config_date = Day1
    /\ listing = <<File(ATL \o strftime(Day2) \o US \o strftime(Day1) \o HDF),
                   File(ATL \o strftime(Day1) \o US \o <<"v", "1">> \o HDF)>>
    /\ matching_files = <<File(ATL \o strftime(Day1) \o US \o <<"v", "1">> \o HDF)>>

(***************************************************************************)
(* Paths.  The text of a path is the sequence of its /-separated segments; *)
(* a path object holds a protocol and its parts.                           *)
(***************************************************************************)
LocalPath(parts) == [protocol |-> "", parts |-> parts]

AzurePath(parts) == [protocol |-> "az", parts |-> parts]

\* str(path)
str(path) ==
    IF path.protocol = "az" THEN <<"az:", "">> \o path.parts
    ELSE IF path.parts # <<>> /\ path.parts[1] = "/"
         THEN <<"">> \o Tail(path.parts)
         ELSE path.parts

IsSegment(c) == c # "" /\ c # "."

\* pathlib.Path(text): empty and "." segments are dropped, a leading slash is
\* the root
PurePath(text) ==
    IF text # <<>> /\ text[1] = ""
    THEN LocalPath(<<"/">> \o SelectSeq(Tail(text), IsSegment))
    ELSE LocalPath(SelectSeq(text, IsSegment))

\* UPath(text): az://container/key keeps its protocol, any other text is a
\* local path
UPath(text) ==
    IF Len(text) >= 2 /\ text[1] = "az:" /\ text[2] = ""
    THEN AzurePath(SubSeq(text, 3, Len(text)))
    ELSE PurePath(text)

(***************************************************************************)
(* Geometry on the lattice 0..GridMax x 0..GridMax.                        *)
(***************************************************************************)
Coord == 0..GridMax

\* shapely.geometry.box(minx, miny, maxx, maxy)
box(minx, miny, maxx, maxy) ==
    {<<x, y>> : x \in minx..maxx, y \in miny..maxy}

\* GeoSeries.union_all()
union_all(geoms) == UNION geoms

\* a.intersects(b): the closed sets share a point
intersects(a, b) == a \cap b # {}

\* geometry.bounds: (minx, miny, maxx, maxy)
bounds(g) ==
    <<SetMin({pt[1] : pt \in g}), SetMin({pt[2] : pt \in g}),
      SetMax({pt[1] : pt \in g}), SetMax({pt[2] : pt \in g})>>

WGS84 == "EPSG:4326"

UTM == "EPSG:32751"

\* the coordinates of a point of frame `from` in the frame EPSG:4326
ToWGS84(from, pt) ==
    IF from = WGS84 THEN pt ELSE <<pt[1] \div 2, pt[2] \div 2>>

\* GeoDataFrame.to_crs("EPSG:4326") of one geometry of a frame declared `from`
to_crs(from, g) == {ToWGS84(from, pt) : pt \in g}

(***************************************************************************)
(* The granules the index builders are run on.  A raster file has a        *)
(* bounding box and a native frame (possibly none); an HDF file has the    *)
(* two arrays orbit_info/bounding_polygon_lat1 and _lon1.                  *)
(***************************************************************************)
RasterFile(l, b, r, t, crs) ==
    [readable |-> TRUE, left |-> l, bottom |-> b, right |-> r, top |-> t,
     crs |-> crs]

HdfFile(lats, lons) == [readable |-> TRUE, lats |-> lats, lons |-> lons]

Unreadable == [readable |-> FALSE]

RasterPaths ==
    {LocalPath(<<"bronze", "sentinel2", "r1.tif">>),
     LocalPath(<<"bronze", "sentinel2", "r2.tif">>),
     LocalPath(<<"/", "mnt", "bronze", "landsat", "r3.tif">>),
     AzurePath(<<"bronze", "sentinel2", "r4.tif">>),
     AzurePath(<<"bronze", "sentinel2", "r5.tif">>)}

HdfPaths ==
    {LocalPath(<<"bronze", "icesat2", "h1.hdf">>),
     LocalPath(<<"/", "mnt", "bronze", "icesat2", "h2.hdf">>),
     AzurePath(<<"bronze", "icesat2", "h3.nc">>),
     LocalPath(<<"bronze", "icesat2", "h4.hdf">>),
     LocalPath(<<"bronze", "icesat2", "h5.hdf">>)}

Last(s) == s[Len(s)]

\* what opening a granule yields
Disk(path) ==
    LET name == Last(path.parts)
    IN  CASE name = "r1.tif" -> RasterFile(0, 0, 1, 1, WGS84)
          [] name = "r2.tif" -> RasterFile(2, 2, 3, 3, WGS84)
          [] name = "r3.tif" -> RasterFile(2, 0, 3, 1, UTM)
          [] name = "r4.tif" -> Unreadable
          [] name = "r5.tif" -> RasterFile(1, 1, 2, 2, None)
          [] name = "h1.hdf" -> HdfFile(<<0, 0, 1, 1>>, <<0, 1, 1, 0>>)
          [] name = "h2.hdf" -> HdfFile(<<2, 2, 3>>, <<2, 3>>)
          [] name = "h3.nc"  -> HdfFile(<<2, 2, 3, 3>>, <<1, 3, 3, 1>>)
          [] name = "h4.hdf" -> Unreadable
          [] name = "h5.hdf" -> HdfFile(<<1, 1>>, <<1, 2>>)

(***************************************************************************)
(* build_tile_index and build_hdf_tile_index                               *)
(***************************************************************************)
\* an exception: its type and the set of paths its message names
Raise(error, named) == [status |-> "raise", error |-> error, names |-> named]

Index(records, crs) == [status |-> "ok", records |-> records, crs |-> crs]

\* make_tile_bounds_geom(src)
make_tile_bounds_geom(src) == box(src.left, src.bottom, src.right, src.top)

\* the variant that labels the record with the name of the opened dataset
RasterRecordFromSrc(path, src) ==
    [geometry |-> make_tile_bounds_geom(src), path |-> <<"/vsimem">> \o str(path)]

\* {"geometry": make_tile_bounds_geom(src), "path": str(path)}
RasterRecord(path, src) ==
    [geometry |-> make_tile_bounds_geom(src), path |-> str(path)]

\* the loop of build_tile_index from position i on: the records and the
\* first truthy src.crs, or the error of the first file that does not open
RECURSIVE RasterLoop(_, _, _, _)
RasterLoop(raster_paths, i, records, raster_crs) ==
    IF i > Len(raster_paths) THEN [status |-> "ok", records |-> records, crs |-> raster_crs]
    ELSE LET path == raster_paths[i]
             src == Disk(path)
         IN  IF ~src.readable THEN Raise("RasterioIOError", {})
             ELSE RasterLoop(raster_paths, i + 1,
                             Append(records, RasterRecord(path, src)),
                             IF raster_crs = None THEN src.crs ELSE raster_crs)

\* both branches (fs given or not) open the file and append the same record
build_tile_index(raster_paths, with_fs) ==
    LET r == RasterLoop(raster_paths, 1, <<>>, None)
    IN  IF r.status = "raise" THEN r
        ELSE IF r.crs # WGS84
             THEN \* gdf.to_crs("EPSG:4326") fails on a frame without
                  \* geometry column or without frame
                  IF r.records = <<>> \/ r.crs = None
                  THEN Raise("ValueError", {})
                  ELSE Index([k \in 1..Len(r.records) |->
                                [geometry |-> to_crs(r.crs, r.records[k].geometry),
                                 path |-> r.records[k].path]], WGS84)
             ELSE Index(r.records, WGS84)

MinOf(s) == SetMin(Range(s))

MaxOf(s) == SetMax(Range(s))

\* Polygon(list(zip(lons, lats))) of a rectangular ring
Polygon(lons, lats) == box(MinOf(lons), MinOf(lats), MaxOf(lons), MaxOf(lats))

\* a linear ring of one or two coordinates is refused by shapely
RingTooShort(lons) == Len(lons) \in {1, 2}

\* the loop of build_hdf_tile_index from position i on.  With a filesystem
\* handle the arrays are read from the handle f of fs.open, not from
\* hdf_file; f cannot be subscripted, which is a TypeError.
RECURSIVE HdfLoop(_, _, _, _)
HdfLoop(hdf_paths, with_fs, i, records) ==
    IF i > Len(hdf_paths) THEN Index(records, WGS84)
    ELSE LET path == hdf_paths[i]
             hdf_file == Disk(path)
         IN  IF ~hdf_file.readable THEN Raise("OSError", {})
             ELSE IF with_fs THEN Raise("TypeError", {})
             ELSE IF Len(hdf_file.lats) # Len(hdf_file.lons)
                  THEN Raise("ValueError", {path})
             ELSE IF RingTooShort(hdf_file.lons) THEN Raise("ValueError", {})
             ELSE HdfLoop(hdf_paths, with_fs, i + 1,
                          Append(records,
                                 [geometry |-> Polygon(hdf_file.lons, hdf_file.lats),
                                  path |-> str(path)]))

\* gpd.GeoDataFrame(records, crs="EPSG:4326") refuses a frame for records
\* without geometry column, that is for no record at all
build_hdf_tile_index(hdf_paths, with_fs) ==
    LET r == HdfLoop(hdf_paths, with_fs, 1, <<>>)
    IN  IF r.status = "ok" /\ r.records = <<>> THEN Raise("ValueError", {})
        ELSE r

\* the sequences of at most n elements of S
SeqsUpTo(S, n) == UNION {[1..k -> S] : k \in 0..n}

IndexInit ==
    /\ \/ pc = "build_tile_index" /\ paths \in SeqsUpTo(RasterPaths, MaxBatch)
       \/ pc = "build_hdf_tile_index" /\ paths \in SeqsUpTo(HdfPaths, MaxBatch)
    /\ fs \in BOOLEAN
    /\ built = None
    /\ MiscIdle /\ LocIdle /\ FltIdle /\ AoiIdle /\ VecIdle /\ ValIdle /\ RunIdle

BuildTileIndex ==
    /\ pc = "build_tile_index"
    /\ built' = build_tile_index(paths, fs)
    /\ pc' = "returned_tile_index"
    /\ UNCHANGED <<paths, fs, locVars, miscVars, fltVars, aoiVars, vecVars, valVars, runVars>>

BuildHdfTileIndex ==
    /\ pc = "build_hdf_tile_index"
    /\ built' = build_hdf_tile_index(paths, fs)
    /\ pc' = "returned_hdf_tile_index"
    /\ UNCHANGED <<paths, fs, locVars, miscVars, fltVars, aoiVars, vecVars, valVars, runVars>>

IndexNext == BuildTileIndex \/ BuildHdfTileIndex

SpecIndex == IndexInit /\ [][IndexNext]_vars

\* C1: an index builder either raises or returns one record per input path,
\* in input order, whose path token is the text of that input path.
C1_OneRecordPerPath ==
    pc \in {"returned_tile_index", "returned_hdf_tile_index"} =>
        \/ built.status = "raise"
        \/ /\ built.status = "ok"
           /\ Len(built.records) = Len(paths)
           /\ \A k \in 1..Len(paths) : built.records[k].path = str(paths[k])

C1_Witness ==
    /\ pc = "returned_tile_index"
    /\ fs = TRUE
    /\ Len(paths) = 2
    /\ paths[1] # paths[2]
    /\ paths[1].protocol = "az"
    /\ built.status = "ok"
    /\ Len(built.records) = 2

\* the file at position k has latitude and longitude arrays of different
\* lengths and every file before it opens and is well formed
FirstMismatchAt(hdf_paths, k) ==
    /\ Disk(hdf_paths[k]).readable
    /\ Len(Disk(hdf_paths[k]).lats) # Len(Disk(hdf_paths[k]).lons)
    /\ \A j \in 1..(k - 1) :
          /\ Disk(hdf_paths[j]).readable
          /\ Len(Disk(hdf_paths[j]).lats) = Len(Disk(hdf_paths[j]).lons)
          /\ ~RingTooShort(Disk(hdf_paths[j]).lons)

\* C9: whenever a file of the batch has latitude and longitude arrays of
\* different lengths, build_hdf_tile_index raises an error that names that
\* file, and returns no index.
C9_MismatchRaisesNamingFile ==
    pc = "returned_hdf_tile_index" =>
        \A k \in 1..Len(paths) :
            FirstMismatchAt(paths, k) =>
                built.status = "raise" /\ built.names = {paths[k]}

(***************************************************************************)
(* filter_tiles_by_aoi                                                     *)
(***************************************************************************)
\* `return None`
NoResult == [is_none |-> TRUE, paths |-> <<>>]

\* `return paths` for a list
Paths(ps) == [is_none |-> FALSE, paths |-> ps]

\* the variant a.within(b)
within(a, b) == a \subseteq b

\* tile_index_gdf.intersects(aoi_geom), for one row
RowIntersects(geometry, aoi_geom) == intersects(geometry, aoi_geom)

\* the variant that loses the first path kept
filter_after_first(index, aoi, azure_root) ==
    LET aoi_geom == union_all(aoi)
        Hit(rec) == RowIntersects(rec.geometry, aoi_geom)
        filtered == SelectSeq(index, Hit)
        ps == [k \in 1..(Len(filtered) - 1) |->
                 IF azure_root THEN PurePath(filtered[k + 1].path)
                 ELSE UPath(filtered[k + 1].path)]
    IN  IF ps # <<>> THEN Paths(ps) ELSE NoResult

filter_tiles_by_aoi(index, aoi, azure_root) ==
    LET aoi_geom == union_all(aoi)
        Hit(rec) == RowIntersects(rec.geometry, aoi_geom)
        filtered == SelectSeq(index, Hit)
        ps == [k \in 1..Len(filtered) |->
                 IF azure_root THEN PurePath(filtered[k].path)
                 ELSE UPath(filtered[k].path)]
    IN  IF ps # <<>> THEN Paths(ps) ELSE NoResult

TileGeoms == {box(0, 0, 1, 1), box(2, 2, 3, 3), box(0, 3, 0, 3)}

AoiFeatures == {box(1, 1, 1, 1), box(2, 0, 3, 1), box(3, 3, 3, 3)}

\* the tokens an index holds in one mode: the texts of the granule paths
Tokens(azure_root) ==
    {str(p) : p \in {q \in RasterPaths : (q.protocol = "") <=> azure_root}}

FilterInit ==
    /\ pc = "filter_tiles_by_aoi"
    /\ azureRoot \in BOOLEAN
    /\ aoi_gdf \in SUBSET AoiFeatures
    /\ tile_index_gdf \in
         SeqsUpTo([geometry : TileGeoms, path : Tokens(azureRoot)], MaxBatch)
    /\ filtered_tiles = None
    /\ refiltered = None
    /\ MiscIdle /\ LocIdle /\ IdxIdle /\ VecIdle /\ ValIdle /\ RunIdle

FilterTiles ==
    /\ pc = "filter_tiles_by_aoi"
    /\ filtered_tiles' = filter_tiles_by_aoi(tile_index_gdf, aoi_gdf, azureRoot)
    /\ pc' = "returned_filtered_tiles"
    /\ UNCHANGED <<tile_index_gdf, refiltered, aoiVars, locVars, miscVars, idxVars, vecVars,
                   valVars, runVars>>

SpecFilter == FilterInit /\ [][FilterTiles]_vars

\* the records of the index whose path is one of the paths of a result
Restricted(index, result, azure_root) ==
    LET Kept(rec) ==
            (IF azure_root THEN PurePath(rec.path) ELSE UPath(rec.path))
                \in Range(result.paths)
    IN  SelectSeq(index, Kept)

\* a second call, on the index restricted to the records returned
FilterAgain ==
    /\ pc = "returned_filtered_tiles"
    /\ refiltered' = filter_tiles_by_aoi(
                         Restricted(tile_index_gdf, filtered_tiles, azureRoot),
                         aoi_gdf, azureRoot)
    /\ pc' = "returned_refiltered"
    /\ UNCHANGED <<tile_index_gdf, filtered_tiles, aoiVars, locVars, miscVars, idxVars,
                   vecVars, valVars, runVars>>

RefilterNext == FilterTiles \/ FilterAgain

SpecRefilter == FilterInit /\ [][RefilterNext]_vars

\* C19: filtering the index restricted to the records of a returned list L
\* against the same AOI returns L again, same paths in the same order (and
\* None again when the first pass returned None).
C19_FilterIdempotent ==
    pc = "returned_refiltered" => refiltered = filtered_tiles

\* the first pass dropped one of two records, the second returns the same
\* single path
C19_Witness ==
    /\ pc = "returned_refiltered"
    /\ Len(tile_index_gdf) = 2
    /\ tile_index_gdf[1].path # tile_index_gdf[2].path
    /\ ~filtered_tiles.is_none
    /\ Len(filtered_tiles.paths) = 1
    /\ refiltered = filtered_tiles

\* two rectangles overlap or touch, by their corner coordinates
RectsMeet(a, b) ==
    /\ bounds(a)[1] <= bounds(b)[3]
    /\ bounds(b)[1] <= bounds(a)[3]
    /\ bounds(a)[2] <= bounds(b)[4]
    /\ bounds(b)[2] <= bounds(a)[4]

GPKG == ".gpkg"

PARQUET == ".parquet"

\* str.lower() of the suffixes the model uses
lower(suffix) ==
    CASE suffix = ".GPKG" -> GPKG
      [] OTHER -> suffix

\* the variant that keeps only the features lying inside the rectangle
BBoxWithin(feature, rectangle) == within(box(bounds(feature)[1], bounds(feature)[2], bounds(feature)[3], bounds(feature)[4]), rectangle)

\* the storage-level prefilter of read_file / read_parquet with bbox=: the
\* bounding rectangle of the feature meets the rectangle
BBoxFilter(feature, rectangle) ==
    intersects(box(bounds(feature)[1], bounds(feature)[2],
                   bounds(feature)[3], bounds(feature)[4]), rectangle)

\* gpd.read_file(path, bbox=aoi_geom.bounds)
ReadWithBBox(features, aoi_geom) ==
    LET rectangle == box(bounds(aoi_geom)[1], bounds(aoi_geom)[2],
                         bounds(aoi_geom)[3], bounds(aoi_geom)[4])
        Pre(f) == BBoxFilter(f.geometry, rectangle)
    IN  SelectSeq(features, Pre)

\* gdf[gdf.intersects(aoi_geom)]
ExactSubset(features, aoi_geom) ==
    LET Hit(f) == intersects(f.geometry, aoi_geom)
    IN  SelectSeq(features, Hit)

Frame(features) == [status |-> "ok", features |-> features]

read_vector_subset(suffix, features, aoi) ==
    LET aoi_geom == union_all(aoi)
    IN  IF suffix = GPKG \/ suffix = PARQUET
        THEN Frame(ExactSubset(ReadWithBBox(features, aoi_geom), aoi_geom))
        ELSE [status |-> "raise", error |-> "ValueError"]

\* the blob is downloaded to a temporary file with the lower-cased suffix;
\* with any other suffix gdf is never bound
copy_vector_data_from_azure(suffix, features, aoi) ==
    LET aoi_geom == union_all(aoi)
    IN  IF lower(suffix) = GPKG \/ lower(suffix) = PARQUET
        THEN Frame(ExactSubset(ReadWithBBox(features, aoi_geom), aoi_geom))
        ELSE [status |-> "raise", error |-> "UnboundLocalError"]

\* point sets that are no rectangles: two far corners, and an L
FeatureGeoms ==
    {box(0, 0, 0, 0), box(0, 0, 3, 3), {<<0, 0>>, <<3, 3>>},
     box(0, 0, 0, 2) \cup box(0, 0, 2, 0), box(2, 2, 3, 3)}

VectorAoiFeatures == {box(1, 1, 1, 1), box(0, 3, 0, 3), box(3, 0, 3, 1)}

VectorInit ==
    /\ pc = "subset_vector"
    /\ azureRoot \in BOOLEAN
    /\ vector_path \in {GPKG, PARQUET, ".GPKG", ".shp"}
    /\ aoi_gdf \in (SUBSET VectorAoiFeatures) \ {{}}
    /\ source_gdf \in
         {s \in SeqsUpTo([fid : 1..MaxFeatures, geometry : FeatureGeoms], MaxFeatures) :
             \A k \in 1..Len(s) : s[k].fid = k}
    /\ gdf = None
    /\ MiscIdle /\ LocIdle /\ IdxIdle /\ FltIdle /\ ValIdle /\ RunIdle

\* process_vectors reads through read_vector_subset in local-path mode
ReadVectorSubset ==
    /\ pc = "subset_vector"
    /\ azureRoot
    /\ gdf' = read_vector_subset(vector_path, source_gdf, aoi_gdf)
    /\ pc' = "returned_subset"
    /\ UNCHANGED <<vector_path, source_gdf, aoiVars, locVars, miscVars, idxVars, fltVars>>
    /\ UNCHANGED <<valVars, runVars>>

\* and through copy_vector_data_from_azure in remote mode
CopyVectorDataFromAzure ==
    /\ pc = "subset_vector"
    /\ ~azureRoot
    /\ gdf' = copy_vector_data_from_azure(vector_path, source_gdf, aoi_gdf)
    /\ pc' = "returned_subset"
    /\ UNCHANGED <<vector_path, source_gdf, aoiVars, locVars, miscVars, idxVars, fltVars>>
    /\ UNCHANGED <<valVars, runVars>>

VectorNext == ReadVectorSubset \/ CopyVectorDataFromAzure

SpecVector == VectorInit /\ [][VectorNext]_vars

\* C4: for a source of a supported format the subsetter returns exactly the
\* source features that share a point with some feature of the AOI, in
\* source order: the prefilter removes no such feature, and the output is
\* no longer than the source.
C4_VectorSubsetExact ==
    (pc = "returned_subset" /\ vector_path \in {GPKG, PARQUET}) =>
        LET Meets(f) == \E a \in aoi_gdf : \E pt \in f.geometry : pt \in a
        IN  /\ gdf.status = "ok"
            /\ gdf.features = SelectSeq(source_gdf, Meets)
            /\ Len(gdf.features) <= Len(source_gdf)

\* a feature reaching beyond the rectangle of the AOI is kept, a feature
\* inside that rectangle that misses the AOI itself is dropped
C4_Witness ==
    /\ pc = "returned_subset"
    /\ vector_path = PARQUET
    /\ aoi_gdf = {box(0, 3, 0, 3), box(3, 0, 3, 1)}
    /\ Len(source_gdf) = 2
    /\ source_gdf[1].geometry = box(2, 2, 3, 3)
    /\ source_gdf[2].geometry = box(0, 0, 3, 3)
    /\ gdf.status = "ok"
    /\ gdf.features = <<source_gdf[2]>>

(***************************************************************************)
(* The directive and validate_directories                                  *)
(***************************************************************************)
\* the values of the enumerations of data_types.py
RasterTypeValues == {"sentinel2", "landsat"}

HDFTypeValues == {"icesat2"}

VectorTypeValues == {"parquet", "gpkg"}

\* a Python str, and the descriptor objects pydantic builds for a tier
Str(s) == [type |-> "str", value |-> s]

VectorFileName(name) == [type |-> "VectorFileName", name |-> name]

ParquetFileName(name) == [type |-> "ParquetFileName", name |-> name]

TabularFilename(name) == [type |-> "TabularFilename", name |-> name]

DotGpkg == <<".", "g", "p", "k", "g">>

DotParquet == <<".", "p", "a", "r", "q", "u", "e", "t">>

\* str.endswith
endswith(s, lit) == LitAt(s, Len(s) - Len(lit) + 1, lit)

\* VectorFileName.__post_init__ of a descriptor with neither layer nor
\* sql_query: the ValueError it raises, None when it passes
post_init(name) ==
    IF ~(endswith(name, DotGpkg) \/ endswith(name, DotParquet))
    THEN "ValueError"
    ELSE None

\* DirectoryContent of one tier; an absent kind (None) and an empty list are
\* both falsy and both <<>>
DirectoryContent(tier, raster, hdf, vector, parquet, table) ==
    [tier |-> tier, raster |-> raster, hdf |-> hdf, vector |-> vector,
     parquet |-> parquet, table |-> table]

\* EnumClass(x) succeeds: x equals the value of a member.  A descriptor
\* object equals no str.
EnumHas(values, x) == x \in {Str(v) : v \in values}

\* the field `directories` of DataConfig(**data_config): pydantic builds
\* every descriptor, and the error of a __post_init__ leaves build_config
\* as a ValueError
directories_field(dirs) ==
    IF \E i \in 1..Len(dirs) : \E k \in 1..Len(dirs[i].vector) :
          post_init(dirs[i].vector[k].name) # None
    THEN [status |-> "raise", error |-> "ValueError"]
    ELSE [status |-> "ok", error |-> None]

\* the variant that refuses nothing
TierVerdictOk(content) == "ok"

\* the kind of the first declaration of a tier that validation refuses, "ok"
\* when there is none.  validation.py imports ParquetType, which
\* data_types.py does not define: a ParquetFileName object is no member of
\* any enumeration of strings.  DirectoryContent has no geoparquet field;
\* the branch of lines 42-47 is modelled as not taken.
TierVerdict(content) ==
    IF \E k \in 1..Len(content.raster) :
          ~EnumHas(RasterTypeValues, Str(content.raster[k]))
    THEN "raster"
    ELSE IF \E k \in 1..Len(content.hdf) :
               ~EnumHas(HDFTypeValues, Str(content.hdf[k]))
    THEN "hdf"
    ELSE IF \E k \in 1..Len(content.vector) :
               ~EnumHas(VectorTypeValues, content.vector[k])
    THEN "vector"
    ELSE IF \E k \in 1..Len(content.parquet) : ~EnumHas({}, content.parquet[k])
    THEN "parquet"
    ELSE "ok"

\* validate_directories: True, or the ValueError of the first tier, in the
\* order of the mapping, that holds a refused declaration
RECURSIVE validate_directories(_, _)
validate_directories(dirs, i) ==
    IF i > Len(dirs) THEN [ok |-> TRUE, error |-> None, kind |-> None, tier |-> None]
    ELSE IF TierVerdict(dirs[i]) # "ok"
         THEN [ok |-> FALSE, error |-> "ValueError",
               kind |-> TierVerdict(dirs[i]), tier |-> dirs[i].tier]
         ELSE validate_directories(dirs, i + 1)

Tiers == {"bronze", "silver"}

FullContents(tier) ==
    {DirectoryContent(tier, r, h, v, q, t) :
        r \in SeqsUpTo({"sentinel2", "landsat", "modis"}, MaxIds),
        h \in SeqsUpTo({"icesat2", "glas"}, 1),
        v \in {<<>>, <<VectorFileName("roads.gpkg")>>},
        q \in {<<>>, <<ParquetFileName("obs.parquet")>>},
        t \in {<<>>, <<TabularFilename("sites.csv")>>}}

SmallContents(tier) ==
    {DirectoryContent(tier, r, h, <<>>, <<>>, t) :
        r \in SeqsUpTo({"sentinel2", "modis"}, 1),
        h \in SeqsUpTo({"icesat2", "glas"}, 1),
        t \in {<<>>, <<TabularFilename("sites.csv")>>}}

ValidateInit ==
    /\ pc = "validate_directories"
    /\ \E first \in Tiers :
         \/ directories \in {<<c>> : c \in FullContents(first)}
         \/ directories \in
              {<<c, d>> : c \in FullContents(first),
                          d \in UNION {SmallContents(t) : t \in Tiers \ {first}}}
    /\ valid = None
    /\ MiscIdle /\ LocIdle /\ IdxIdle /\ FltIdle /\ AoiIdle /\ VecIdle /\ RunIdle

Validate ==
    /\ pc = "validate_directories"
    /\ valid' = validate_directories(directories, 1)
    /\ pc' = "validated"
    /\ UNCHANGED <<directories, locVars, miscVars, idxVars, fltVars, aoiVars, vecVars, runVars>>

SpecValidate == ValidateInit /\ [][Validate]_vars

\* every raster and HDF identifier the directive declares is enumerated
IdentifiersKnown(dirs) ==
    \A i \in 1..Len(dirs) :
        /\ \A k \in 1..Len(dirs[i].raster) : dirs[i].raster[k] \in {"sentinel2", "landsat"}
        /\ \A k \in 1..Len(dirs[i].hdf) : dirs[i].hdf[k] \in {"icesat2"}

\* C8: validate_directories returns True when all raster identifiers are
\* sentinel2 or landsat and all HDF identifiers are icesat2, whatever file
\* descriptors are declared, and raises ValueError exactly otherwise.
C8_ValidateByIdentifiers ==
    pc = "validated" => (valid.ok <=> IdentifiersKnown(directories))

(***************************************************************************)
(* The entry points process, process_fsspec and process_on_blobs.  A run   *)
(* is one call; each action is one statement of the entry point or one     *)
(* iteration of the loop of a tier function.                               *)
(***************************************************************************)
\* a source object is named by container (tier), dataset directory and file
Key(path) == SubSeq(path.parts, Len(path.parts) - 2, Len(path.parts))

\* BASE_TIER_DIR: azure_blob.joinpath(config.azureRoot, tier) on the mount,
\* az://<tier> of config.tier_roots otherwise
TierDir(azure_root, tier) ==
    IF azure_root THEN LocalPath(<<"/", "mnt", "data", tier>>)
    ELSE AzurePath(<<tier>>)

joinpath(base, more) == [base EXCEPT !.parts = @ \o more]

\* path.with_suffix(".json") for the granule names of the store
JsonName(name) ==
    CASE name = "r1.tif" -> "r1.json"
      [] name = "r2.tif" -> "r2.json"
      [] name = "r5.tif" -> "r5.json"
      [] name = "h1.hdf" -> "h1.json"
      [] name = "h3.nc"  -> "h3.json"

with_suffix_json(path) ==
    [path EXCEPT !.parts[Len(path.parts)] = JsonName(@)]

\* a dataset directory of a container: absent, or the names of its files
\* for the target date
Absent == [exists |-> FALSE, names |-> <<>>]

Holds(names) == [exists |-> TRUE, names |-> names]

\* the locator called by a tier function: the paths of the directory's files
\* for the date; iterdir() of a missing directory is a FileNotFoundError
ListForDate(src, root_path, tier, dataset) ==
    LET d == src.dirs[<<tier, dataset>>]
    IN  IF ~d.exists THEN [found |-> FALSE, files |-> <<>>]
        ELSE [found |-> TRUE,
              files |-> [k \in 1..Len(d.names) |->
                           joinpath(root_path, <<dataset, d.names[k]>>)]]

\* list_hdf_for_date, which process.py and process_on_blobs.py import from
\* build_paths.py and build_paths.py does not define: by the specification
\* the files of the directory for the date, a missing directory being a
\* lookup miss the caller decides on
ListHdfForDate(src, root_path, tier, dataset) ==
    ListForDate(src, root_path, tier, dataset)

\* the variant of the handler that catches nothing
CaughtNever(err) == FALSE

\* `except FileNotFoundError` around the copy of the sidecar
Caught(err) == err = "FileNotFoundError"

\* copy_raster_files from file i on.  For a landsat granule the sidecar is
\* opened for reading (a FileNotFoundError when it is absent) and then
\* dest_json, which is f.with_suffix(".json"), is opened for writing.  On the
\* mount that is the path of the source sidecar, which the open empties.
\* Without mount it is an az:// path handed to the builtin open: a
\* TypeError, or a FileNotFoundError, as the installed path library decides
\* (local_open).  `warned` collects the sidecars the handler logs.
RECURSIVE copy_raster_files(_, _, _, _, _, _, _, _, _)
copy_raster_files(files, i, tier, raster_type, azure_root, src, out, warned, local_open) ==
    IF i > Len(files)
    THEN [status |-> "ok", error |-> None, source |-> src, output |-> out,
          warned |-> warned]
    ELSE LET f == files[i]
             dest == <<tier, raster_type, Last(f.parts)>>
             out1 == out \cup {[dest |-> dest, from |-> Key(f)]}
             json == Key(with_suffix_json(f))
             err == IF json \notin (src.json \cup src.emptied) THEN "FileNotFoundError"
                    ELSE IF azure_root THEN None
                    ELSE local_open
         IN  IF raster_type # "landsat"
             THEN copy_raster_files(files, i + 1, tier, raster_type, azure_root,
                                    src, out1, warned, local_open)
             ELSE IF err = None
             THEN copy_raster_files(files, i + 1, tier, raster_type, azure_root,
                                    [src EXCEPT !.json = @ \ {json},
                                                !.emptied = @ \cup {json}],
                                    out1, warned, local_open)
             ELSE IF Caught(err)
             THEN copy_raster_files(files, i + 1, tier, raster_type, azure_root,
                                    src, out1, warned \cup {json}, local_open)
             ELSE [status |-> "raise", error |-> err, source |-> src,
                   output |-> out1, warned |-> warned]

\* the kinds of a tier in the order the entry points handle them
KindOrder == <<"raster", "vector", "hdf", "parquet", "table">>

\* the kinds an entry point acts on: process_fsspec passes over hdf, parquet
\* and table, process_on_blobs handles hdf alone
Handled(e) ==
    IF e = "process" THEN {"raster", "vector", "hdf", "parquet", "table"}
    ELSE IF e = "process_fsspec" THEN {"raster", "vector"}
    ELSE {"hdf"}

\* the positions of KindOrder after position j whose list is truthy
KindsAfter(e, content, j) ==
    {m \in (j + 1)..Len(KindOrder) :
        KindOrder[m] \in Handled(e) /\ content[KindOrder[m]] # <<>>}

KindIndex(kind) == CHOOSE m \in 1..Len(KindOrder) : KindOrder[m] = kind

\* where the tier loop stands once item k of `kind` of tier ti is done
Advance(e, dirs, p) ==
    IF p.k < Len(dirs[p.ti][p.kind]) THEN [p EXCEPT !.k = @ + 1]
    ELSE LET later == KindsAfter(e, dirs[p.ti], KindIndex(p.kind))
         IN  IF later # {} THEN [ti |-> p.ti, kind |-> KindOrder[SetMin(later)], k |-> 1]
             ELSE [ti |-> p.ti + 1, kind |-> "tier", k |-> 0]

\* the tier prefixes process_on_blobs clears in staging-data
TierPrefixes == {"bronze", "silver", "gold", "platinum"}

\* clear_staging_tiers: every blob under a tier prefix is deleted
clear_staging_tiers(blobs) == {b \in blobs : b[1] \notin TierPrefixes}

\* copy_blobs_to_staging without sidecars: <dest_prefix>/<basename> per path
copy_blobs_to_staging(blobs, files, tier, dataset) ==
    blobs \cup {<<tier, dataset, Last(files[k].parts)>> : k \in 1..Len(files)}

\* one iteration of the loop of process_rasters_using_paths, and of the
\* loop of process_hdf_files_using_paths which has the same shape: `found`
\* and `files` are the locator's outcome, `current` the value the list
\* variable holds after the try statement, `index` the tile index of it
LoopBody(found, current, flag, index, tier, dataset, aoi, azure_root, src, out, local_open) ==
    LET same == [status |-> "ok", error |-> None, source |-> src, output |-> out,
                 warned |-> {}]
    IN  IF ~found /\ flag
        THEN [same EXCEPT !.status = "raise", !.error = "FileNotFoundError"]
        ELSE IF current = <<>>
        THEN IF flag
             THEN [same EXCEPT !.status = "raise", !.error = "FileNotFoundError"]
             ELSE same
        ELSE IF index.status = "raise"
        THEN [same EXCEPT !.status = "raise", !.error = index.error]
        ELSE LET hits == filter_tiles_by_aoi(index.records, aoi, azure_root)
             IN  IF hits.is_none THEN same
                 ELSE copy_raster_files(hits.paths, 1, tier, dataset,
                                        azure_root, src, out, {}, local_open)

ConfigBlobs == {<<"config", "config.yaml">>, <<"config", "aoi.gpkg">>}

StaleBlob == <<"bronze", "sentinel2", "old.tif">>

ReferenceBlobs == {"grid.gpkg"}

\* the AOI file of a run
RunAoi == {box(1, 1, 1, 1)}

Datasets == {"sentinel2", "landsat", "icesat2"}

DirStates(dataset) ==
    CASE dataset = "sentinel2" -> {Absent, Holds(<<>>), Holds(<<"r1.tif", "r2.tif">>)}
      [] dataset = "landsat"   -> {Absent, Holds(<<"r1.tif", "r5.tif">>)}
      [] dataset = "icesat2"   -> {Absent, Holds(<<>>), Holds(<<"h1.hdf">>)}

Declared(dirs, kind) == UNION {Range(dirs[i][kind]) : i \in 1..Len(dirs)}

\* the stores a directive is run against: the directories of the datasets
\* it declares vary, every container has the same layout
Stores(dirs) ==
    LET ids == Declared(dirs, "raster") \cup Declared(dirs, "hdf")
        layouts == {st \in [Datasets -> {Absent} \cup UNION {DirStates(d) : d \in Datasets}] :
                      \A d \in Datasets :
                          st[d] \in (IF d \in ids THEN DirStates(d) ELSE {Absent})}
        sidecars(names) == {<<t, "landsat", n>> : t \in Tiers, n \in names}
        tables == {<<t, "sites.csv">> : t \in Tiers}
    IN  UNION {
          {[dirs |-> [key \in Tiers \X Datasets |-> st[key[2]]],
            files |-> f, json |-> j, emptied |-> {}] :
              f \in (IF Declared(dirs, "table") # {} THEN {{}, tables} ELSE {{}}),
              j \in (IF st["landsat"].exists
                     THEN {{}, sidecars({"r5.json"}), sidecars({"r1.json", "r5.json"})}
                     ELSE {{}})} :
          st \in layouts}

RasterLists ==
    {<<>>, <<"sentinel2">>, <<"sentinel2", "landsat">>, <<"landsat", "sentinel2">>,
     <<"modis">>, <<"sentinel2", "modis">>}

RunContents(tier) ==
    {DirectoryContent(tier, r, h, <<>>, <<>>, t) :
        r \in RasterLists,
        h \in {<<>>, <<"icesat2">>, <<"glas">>},
        t \in {<<>>, <<TabularFilename("sites.csv")>>}}

LaterContents(tier) ==
    {DirectoryContent(tier, <<"sentinel2">>, <<>>, <<>>, <<>>, <<>>),
     DirectoryContent(tier, <<"modis">>, <<>>, <<>>, <<>>, <<>>),
     DirectoryContent(tier, <<>>, <<>>, <<>>, <<>>, <<TabularFilename("sites.csv")>>)}

RoadsGpkg == <<"r", "o", "a", "d", "s">> \o DotGpkg

RoadsShp == <<"r", "o", "a", "d", "s", ".", "s", "h", "p">>

ObsParquet == <<"o", "b", "s">> \o DotParquet

ObsCsv == <<"o", "b", "s", ".", "c", "s", "v">>

\* tiers declaring vector and columnar files, of supported and of other
\* extensions
FileContents(tier) ==
    {DirectoryContent(tier, <<>>, <<>>, v, q, <<>>) :
        v \in {<<>>, <<VectorFileName(RoadsGpkg)>>, <<VectorFileName(RoadsShp)>>},
        q \in {<<>>, <<ParquetFileName(ObsParquet)>>, <<ParquetFileName(ObsCsv)>>}}
    \ {DirectoryContent(tier, <<>>, <<>>, <<>>, <<>>, <<>>)}

RunDirectives ==
    UNION {{<<c>> : c \in RunContents(first) \cup FileContents(first)} \cup
           {<<c, d>> : c \in RunContents(first),
                       d \in UNION {LaterContents(t) : t \in Tiers \ {first}}} \cup
           {<<DirectoryContent(first, <<"sentinel2">>, <<>>, <<>>, <<>>, <<>>), d>> :
                       d \in UNION {FileContents(t) : t \in Tiers \ {first}}} :
           first \in Tiers}

\* process is given a mounted root (azureRoot set); process_fsspec and
\* process_on_blobs run without mount
RunInit ==
    /\ entry \in {"process", "process_fsspec", "process_on_blobs"}
    /\ azureRoot = (entry = "process")
    /\ error_for_missing_files \in BOOLEAN
    /\ directories \in RunDirectives
    /\ source \in Stores(directories)
    /\ staging \in (IF entry = "process_on_blobs"
                    THEN {ConfigBlobs, ConfigBlobs \cup {StaleBlob}}
                    ELSE {{}})
    /\ pc = (IF entry = "process_on_blobs" THEN "clear_staging_tiers" ELSE "build_config")
    /\ output = {} /\ events = {} /\ processed = <<>>
    /\ pos = [ti |-> 1, kind |-> "tier", k |-> 0]
    /\ rasters = <<>> /\ hdf_tiles = <<>>
    /\ raised = None /\ valid = None /\ aoi_gdf = None
    /\ MiscIdle /\ LocIdle /\ IdxIdle /\ FltIdle /\ VecIdle

cfgVars == <<entry, error_for_missing_files, directories, azureRoot>>

otherVars == <<locVars, idxVars, fltVars, vecVars, miscVars>>

\* the storage accesses by which two stores, or two output trees, differ
Writes(src, src2, out, out2) ==
    (IF src2 # src THEN {"write_source"} ELSE {}) \cup
    (IF out2 # out THEN {"write_output"} ELSE {})

\* the tier loop moves to position p
MoveTo(p) ==
    /\ pos' = p
    /\ pc' = (IF p.kind = "tier" THEN "tier_loop" ELSE "item")

Entry(i, kind, id, miss, outcome) ==
    [tier |-> directories[i].tier, kind |-> kind, id |-> id, miss |-> miss,
     outcome |-> outcome, warned |-> {}]

\* process_on_blobs: clear_staging_tiers(blob_client, "staging-data", ...)
ClearStagingTiers ==
    /\ pc = "clear_staging_tiers"
    /\ staging' = clear_staging_tiers(staging)
    /\ events' = events \cup {"list_staging"} \cup
                 (IF staging' # staging THEN {"delete_staged"} ELSE {})
    /\ pc' = "download_config_and_aoi"
    /\ UNCHANGED <<cfgVars, otherVars, aoi_gdf, valid, source, output, processed,
                   pos, rasters, hdf_tiles, raised>>

\* process_on_blobs: download_config_and_aoi_from_blob
DownloadConfigAndAoi ==
    /\ pc = "download_config_and_aoi"
    /\ events' = events \cup {"download_directive", "download_aoi"}
    /\ pc' = "build_config"
    /\ UNCHANGED <<cfgVars, otherVars, aoi_gdf, valid, source, staging, output,
                   processed, pos, rasters, hdf_tiles, raised>>

\* config = build_config(config_path)
BuildConfig ==
    /\ pc = "build_config"
    /\ events' = events \cup {"read_directive"}
    /\ IF directories_field(directories).status = "raise"
       THEN /\ pc' = "raised"
            /\ raised' = [type |-> directories_field(directories).error, at |-> "build_config"]
       ELSE /\ pc' = (IF entry = "process_on_blobs" THEN "read_aoi" ELSE "validate")
            /\ raised' = raised
    /\ UNCHANGED <<cfgVars, otherVars, aoi_gdf, valid, source, staging, output,
                   processed, pos, rasters, hdf_tiles>>

\* validate_directories(config)
RunValidate ==
    /\ pc = "validate"
    /\ valid' = validate_directories(directories, 1)
    /\ IF valid'.ok
       THEN /\ pc' = (IF entry = "process_on_blobs" THEN "tier_loop" ELSE "read_aoi")
            /\ raised' = raised
       ELSE /\ pc' = "raised"
            /\ raised' = [type |-> "ValueError", at |-> "validate_directories"]
    /\ UNCHANGED <<cfgVars, otherVars, aoi_gdf, source, staging, output, events,
                   processed, pos, rasters, hdf_tiles>>

\* aoi_gdf = gpd.read_file(...)
ReadAoi ==
    /\ pc = "read_aoi"
    /\ aoi_gdf' = RunAoi
    /\ events' = events \cup {"read_aoi"}
    /\ pc' = (IF entry = "process_on_blobs" THEN "validate" ELSE "tier_loop")
    /\ UNCHANGED <<cfgVars, otherVars, valid, source, staging, output, processed,
                   pos, rasters, hdf_tiles, raised>>

\* the head of `for tier, directory_content in config.directories.items()`
EnterTier ==
    /\ pc = "tier_loop"
    /\ pos.ti <= Len(directories)
    /\ LET first == KindsAfter(entry, directories[pos.ti], 0)
       IN  MoveTo(IF first # {}
                  THEN [ti |-> pos.ti, kind |-> KindOrder[SetMin(first)], k |-> 1]
                  ELSE [ti |-> pos.ti + 1, kind |-> "tier", k |-> 0])
    /\ UNCHANGED <<cfgVars, otherVars, aoi_gdf, valid, source, staging, output,
                   events, processed, rasters, hdf_tiles, raised>>

\* the statements after the tier loop
LeaveLoop ==
    /\ pc = "tier_loop"
    /\ pos.ti > Len(directories)
    /\ pc' = (IF entry = "process" THEN "copy_reference" ELSE "done")
    /\ UNCHANGED <<cfgVars, otherVars, aoi_gdf, valid, source, staging, output,
                   events, processed, pos, rasters, hdf_tiles, raised>>

\* process: copy_reference_blob_to_local(local_dir / "reference")
CopyReferenceBlobToLocal ==
    /\ pc = "copy_reference"
    /\ output' = output \cup {[dest |-> <<"reference", b>>, from |-> <<"reference", b>>] :
                                b \in ReferenceBlobs}
    /\ events' = events \cup {"list_reference", "write_output"}
    /\ pc' = "done"
    /\ UNCHANGED <<cfgVars, otherVars, aoi_gdf, valid, source, staging, processed,
                   pos, rasters, hdf_tiles, raised>>

\* the outcome r of a loop body ends the iteration
Conclude(r, item) ==
    /\ source' = r.source
    /\ output' = r.output
    /\ events' = events \cup {"list_dir"} \cup Writes(source, r.source, output, r.output)
    /\ IF r.status = "raise"
       THEN /\ pc' = "raised"
            /\ pos' = pos
            /\ raised' = [type |-> r.error, at |-> pos.kind]
            /\ processed' = Append(processed,
                   [item EXCEPT !.outcome = "raised", !.warned = r.warned])
       ELSE /\ MoveTo(Advance(entry, directories, pos))
            /\ raised' = raised
            /\ processed' = Append(processed,
                   [item EXCEPT !.outcome = IF r.output # output THEN "copied"
                                            ELSE "skipped",
                                !.warned = r.warned])

\* one iteration of process_rasters_using_paths.  process calls it without
\* the flag, process_fsspec passes error_for_missing_files.  The list
\* `rasters` is assigned [] when the function is entered and keeps its value
\* when the locator raises.  Without mount rasterio is handed az:// paths;
\* whether GDAL opens them depends on its own credentials (gdal_opens).
ProcessRasterType ==
    /\ pc = "item"
    /\ pos.kind = "raster"
    /\ \E gdal_opens \in BOOLEAN, local_open \in {"TypeError", "FileNotFoundError"} :
         LET tier == directories[pos.ti].tier
             raster_type == directories[pos.ti].raster[pos.k]
             flag == IF entry = "process" THEN FALSE ELSE error_for_missing_files
             listed == ListForDate(source, TierDir(azureRoot, tier), tier, raster_type)
             kept == IF pos.k = 1 THEN <<>> ELSE rasters
             current == IF listed.found THEN listed.files ELSE kept
             tile_index == IF ~azureRoot /\ ~gdal_opens
                           THEN Raise("RasterioIOError", {})
                           ELSE build_tile_index(current, FALSE)
             r == LoopBody(listed.found, current, flag, tile_index, tier,
                           raster_type, aoi_gdf, azureRoot, source, output, local_open)
         IN  /\ rasters' = current
             /\ Conclude(r, Entry(pos.ti, "raster", raster_type,
                                  ~listed.found \/ listed.files = <<>>, None))
    /\ UNCHANGED <<cfgVars, otherVars, aoi_gdf, valid, staging, hdf_tiles>>

\* one iteration of process_hdf_files_using_paths (process only); config.fs
\* is None on the mount
ProcessHdfType ==
    /\ pc = "item"
    /\ pos.kind = "hdf"
    /\ entry = "process"
    /\ LET tier == directories[pos.ti].tier
           hdf_type == directories[pos.ti].hdf[pos.k]
           listed == ListHdfForDate(source, TierDir(azureRoot, tier), tier, hdf_type)
           kept == IF pos.k = 1 THEN <<>> ELSE hdf_tiles
           current == IF listed.found THEN listed.files ELSE kept
           r == LoopBody(listed.found, current, error_for_missing_files,
                         build_hdf_tile_index(current, ~azureRoot), tier, hdf_type,
                         aoi_gdf, azureRoot, source, output, "FileNotFoundError")
       IN  /\ hdf_tiles' = current
           /\ Conclude(r, Entry(pos.ti, "hdf", hdf_type,
                                ~listed.found \/ listed.files = <<>>, None))
    /\ UNCHANGED <<cfgVars, otherVars, aoi_gdf, valid, staging, rasters>>

\* one iteration of copy_csv_files (process only): shutil.copy of a file
\* that does not exist is a FileNotFoundError nothing catches
CopyCsvFile ==
    /\ pc = "item"
    /\ pos.kind = "table"
    /\ LET tier == directories[pos.ti].tier
           csv_file == directories[pos.ti].table[pos.k]
           there == <<tier, csv_file.name>> \in source.files
           item == Entry(pos.ti, "table", csv_file.name, ~there, None)
       IN  IF there
           THEN /\ output' = output \cup {[dest |-> <<tier, csv_file.name>>,
                                           from |-> <<tier, csv_file.name>>]}
                /\ events' = events \cup {"write_output"}
                /\ processed' = Append(processed, [item EXCEPT !.outcome = "copied"])
                /\ MoveTo(Advance(entry, directories, pos))
                /\ raised' = raised
           ELSE /\ pc' = "raised"
                /\ raised' = [type |-> "FileNotFoundError", at |-> "table"]
                /\ processed' = Append(processed, [item EXCEPT !.outcome = "raised"])
                /\ UNCHANGED <<output, events, pos>>
    /\ UNCHANGED <<cfgVars, otherVars, aoi_gdf, valid, source, staging, rasters,
                   hdf_tiles>>

\* process_hdf_in_blob for one HDF identifier of one tier
ProcessHdfInBlob ==
    /\ pc = "item"
    /\ pos.kind = "hdf"
    /\ entry = "process_on_blobs"
    /\ LET tier == directories[pos.ti].tier
           hdf_type == directories[pos.ti].hdf[pos.k]
           listed == ListHdfForDate(source, AzurePath(<<tier>>), tier, hdf_type)
           tile_index_hdf == build_hdf_tile_index(listed.files, TRUE)
           hits == filter_tiles_by_aoi(tile_index_hdf.records, aoi_gdf, azureRoot)
           item == Entry(pos.ti, "hdf", hdf_type,
                         ~listed.found \/ listed.files = <<>>, None)
           fails == ~listed.found \/
                    (listed.files # <<>> /\ tile_index_hdf.status = "raise")
       IN  /\ IF fails
              THEN /\ pc' = "raised"
                   /\ raised' = [type |-> IF ~listed.found THEN "FileNotFoundError"
                                          ELSE tile_index_hdf.error,
                                 at |-> "hdf"]
                   /\ processed' = Append(processed, [item EXCEPT !.outcome = "raised"])
                   /\ UNCHANGED <<staging, pos>>
              ELSE /\ staging' = IF listed.files = <<>> \/ hits.is_none THEN staging
                                 ELSE copy_blobs_to_staging(staging, hits.paths,
                                                            tier, hdf_type)
                   /\ processed' = Append(processed,
                          [item EXCEPT !.outcome = IF staging' # staging THEN "copied"
                                                   ELSE "skipped"])
                   /\ MoveTo(Advance(entry, directories, pos))
                   /\ raised' = raised
           /\ events' = events \cup {"list_dir"} \cup
                        (IF staging' # staging THEN {"write_staged"} ELSE {})
    /\ UNCHANGED <<cfgVars, otherVars, aoi_gdf, valid, source, output, rasters,
                   hdf_tiles>>

Next ==
    \/ ClearStagingTiers
    \/ DownloadConfigAndAoi
    \/ BuildConfig
    \/ RunValidate
    \/ ReadAoi
    \/ EnterTier
    \/ LeaveLoop
    \/ ProcessRasterType
    \/ ProcessHdfType
    \/ CopyCsvFile
    \/ ProcessHdfInBlob
    \/ CopyReferenceBlobToLocal

Spec == RunInit /\ [][Next]_vars

\* the directory of a declared dataset is missing or holds no file for the
\* target date
LookupMiss(tier, dataset) ==
    ~source.dirs[<<tier, dataset>>].exists \/ source.dirs[<<tier, dataset>>].names = <<>>

\* C5: with the strict flag set, process and process_fsspec raise at the
\* first declared raster or HDF dataset whose directory is missing or holds
\* no file for the date: such a dataset is the last item handled and the run
\* has raised, and no run completes with such a dataset declared.
C5_StrictRaisesAtFirstMiss ==
    (entry \in {"process", "process_fsspec"} /\ error_for_missing_files) =>
        /\ \A i \in 1..Len(processed) :
              (processed[i].kind \in {"raster", "hdf"} /\ processed[i].miss) =>
                  (i = Len(processed) /\ pc = "raised")
        /\ pc = "done" =>
              \A t \in 1..Len(directories) :
                  /\ \A k \in 1..Len(directories[t].raster) :
                        ~LookupMiss(directories[t].tier, directories[t].raster[k])
                  /\ \A k \in 1..Len(directories[t].hdf) :
                        ~LookupMiss(directories[t].tier, directories[t].hdf[k])

\* C6: without the strict flag a declared tabular or columnar file that does
\* not exist does not abort the run: it is skipped, nothing is staged for
\* it, and the run goes on to the items declared after it.
C6_NonStrictSkipsMissingFile ==
    ~error_for_missing_files =>
        \A i \in 1..Len(processed) :
            (processed[i].kind \in {"table", "parquet"} /\ processed[i].miss) =>
                /\ processed[i].outcome = "skipped"
                /\ ~(i = Len(processed) /\ pc = "raised")
                /\ \A o \in output : o.dest # <<processed[i].tier, processed[i].id>>

\* C7: a directive declaring a raster or HDF identifier outside the
\* enumerations is rejected, in every entry point, before any storage access
\* other than reading the directive: no directory listed, no AOI read, no
\* staged blob or output deleted or written.
C7_UnknownIdRejectedFirst ==
    ~IdentifiersKnown(directories) =>
        /\ events \cap {"list_dir", "download_aoi", "read_aoi", "delete_staged",
                       "write_staged", "write_output", "write_source"} = {}
        /\ output = {}
        /\ pc \notin {"tier_loop", "item", "copy_reference", "done"}

\* the granules of a landsat directory that holds files for the date; both
\* meet the AOI of the run
LandsatGranules == {"r1.tif", "r5.tif"}

SidecarAbsent(tier, name) ==
    <<tier, "landsat", JsonName(name)>> \notin (source.json \cup source.emptied)

\* C13: a landsat granule whose sidecar is absent at the source only yields
\* a warning: the run does not raise over it, logs it and copies the
\* granules after it, whatever the flag and the mode.
C13_AbsentSidecarOnlyWarns ==
    \A i \in 1..Len(processed) :
        (processed[i].kind = "raster" /\ processed[i].id = "landsat"
            /\ ~processed[i].miss) =>
            /\ (processed[i].outcome = "raised"
                   /\ \A n \in LandsatGranules : SidecarAbsent(processed[i].tier, n))
                  => raised.type = "RasterioIOError"
            /\ processed[i].outcome # "raised" =>
                  \A n \in LandsatGranules :
                      /\ \E o \in output : o.dest = <<processed[i].tier, "landsat", n>>
                      /\ SidecarAbsent(processed[i].tier, n) =>
                            <<processed[i].tier, "landsat", JsonName(n)>>
                                \in processed[i].warned

C13_Witness ==
    /\ entry = "process_fsspec"
    /\ error_for_missing_files
    /\ pc = "done"
    /\ \E i \in 1..Len(processed) :
          /\ processed[i].id = "landsat"
          /\ processed[i].outcome = "copied"
          /\ Cardinality(processed[i].warned) = Cardinality(LandsatGranules)

(***************************************************************************)
(* copy_parquet_files, called on the parquet list of one tier.  Validation *)
(* refuses every parquet descriptor, so no entry point reaches it; it is   *)
(* run here as its callers in process would run it.                        *)
(***************************************************************************)
\* obs.parquet has a column `date`; pts.parquet has none, so that reading it
\* with the date predicate fails; gone.parquet is declared and not stored
ParquetNames == {"obs.parquet", "pts.parquet", "gone.parquet"}

HasDateColumn(name) == name = "obs.parquet"

\* how df.to_parquet(parquet_path) ends: it converts the frame, then opens
\* parquet_path for writing, which empties it, then writes
RewriteOutcomes == {"ok", "fails_before_open", "fails_after_open"}

\* what the try block of the date filter leaves at parquet_path, and the
\* exception it raised (None when it ran through)
date_filter(name, rewrite) ==
    IF ~HasDateColumn(name) THEN [content |-> "raw", error |-> "ArrowInvalid"]
    ELSE IF rewrite = "ok" THEN [content |-> "filtered", error |-> None]
    ELSE IF rewrite = "fails_before_open" THEN [content |-> "raw", error |-> "ArrowException"]
    ELSE [content |-> "partial", error |-> "OSError"]

ParquetInit ==
    /\ pc = "item"
    /\ entry = "copy_parquet_files"
    /\ azureRoot \in BOOLEAN
    /\ error_for_missing_files \in BOOLEAN
    /\ \E tier \in Tiers, names \in Listings(ParquetNames, MaxFiles) \ {<<>>} :
         /\ directories = <<DirectoryContent(tier, <<>>, <<>>, <<>>,
                              [k \in 1..Len(names) |-> ParquetFileName(names[k])], <<>>)>>
         /\ source = [dirs |-> [key \in Tiers \X Datasets |-> Absent],
                      files |-> {<<tier, n>> : n \in ParquetNames \ {"gone.parquet"}},
                      json |-> {}, emptied |-> {}]
    /\ pos = [ti |-> 1, kind |-> "parquet", k |-> 1]
    /\ staging = {} /\ output = {} /\ events = {} /\ processed = <<>>
    /\ rasters = <<>> /\ hdf_tiles = <<>>
    /\ raised = None /\ valid = None /\ aoi_gdf = None
    /\ MiscIdle /\ LocIdle /\ IdxIdle /\ FltIdle /\ VecIdle

\* one iteration of copy_parquet_files: the copy, outside the try block,
\* then the date filter inside it, whose every exception is logged
CopyParquetFile ==
    /\ pc = "item"
    /\ pos.kind = "parquet"
    /\ \E rewrite \in RewriteOutcomes :
         LET tier == directories[pos.ti].tier
             parquet_file == directories[pos.ti].parquet[pos.k]
             there == <<tier, parquet_file.name>> \in source.files
             item == Entry(pos.ti, "parquet", parquet_file.name, ~there, None)
             left == date_filter(parquet_file.name, rewrite)
         IN  IF there
             THEN /\ output' = output \cup {[dest |-> <<tier, parquet_file.name>>,
                                             from |-> <<tier, parquet_file.name>>,
                                             content |-> left.content]}
                  /\ events' = events \cup {"write_output"}
                  /\ processed' = Append(processed,
                         [item EXCEPT !.outcome = "copied",
                                      !.warned = IF left.error # None
                                                 THEN {<<tier, parquet_file.name>>}
                                                 ELSE {}])
                  /\ MoveTo(Advance(entry, directories, pos))
                  /\ raised' = raised
             ELSE /\ pc' = "raised"
                  /\ raised' = [type |-> "FileNotFoundError", at |-> "parquet"]
                  /\ processed' = Append(processed, [item EXCEPT !.outcome = "raised"])
                  /\ UNCHANGED <<output, events, pos>>
    /\ UNCHANGED <<cfgVars, otherVars, aoi_gdf, valid, source, staging, rasters,
                   hdf_tiles>>

SpecParquet == ParquetInit /\ [][CopyParquetFile]_vars

\* C14: when the date filter of a copied parquet file fails, in the read or
\* in the rewrite, the failure is logged, the loop goes on, and the file at
\* the output path is the raw copy.
C14_FilterFailureLeavesRawCopy ==
    \A i \in 1..Len(processed) :
        (processed[i].kind = "parquet" /\ processed[i].warned # {}) =>
            /\ processed[i].outcome = "copied"
            /\ \A o \in output :
                  o.dest = <<processed[i].tier, processed[i].id>> => o.content = "raw"

(***************************************************************************)
(* Order of the tiers and of the kinds within a tier                       *)
(***************************************************************************)
\* the members of DirectoryType in their declared order
DirectoryType == <<"bronze", "silver", "gold", "platinum", "reference">>

TierRank(tier) == CHOOSE m \in 1..Len(DirectoryType) : DirectoryType[m] = tier

\* raster datasets, HDF datasets, vector files, tabular files, columnar files
KindRank(kind) ==
    CHOOSE m \in 1..5 : <<"raster", "hdf", "vector", "table", "parquet">>[m] = kind

\* C15: whatever the key order of the tier mapping, the items of a run are
\* processed tier by tier in the order bronze, silver, gold, platinum,
\* reference, and within a tier in the order raster, HDF, vector, tabular,
\* columnar.
C15_FixedTierAndKindOrder ==
    \A i, j \in 1..Len(processed) :
        i < j =>
            \/ TierRank(processed[i].tier) < TierRank(processed[j].tier)
            \/ /\ processed[i].tier = processed[j].tier
               /\ KindRank(processed[i].kind) <= KindRank(processed[j].kind)

(***************************************************************************)
(* Vector and columnar files of unsupported extensions                     *)
(***************************************************************************)
\* the directive declares a vector file that is neither .gpkg nor .parquet,
\* or a columnar file that is not .parquet
UnsupportedDeclared(dirs) ==
    \E i \in 1..Len(dirs) :
        \/ \E k \in 1..Len(dirs[i].vector) :
              Suffix(dirs[i].vector[k].name) \notin {DotGpkg, DotParquet}
        \/ \E k \in 1..Len(dirs[i].parquet) :
              Suffix(dirs[i].parquet[k].name) # DotParquet

Missing == [kind |-> "missing"]

Null == [kind |-> "null"]

Text(t) == [kind |-> "str", text |-> t]

\* the values of the keys of dataConfig: date is a YAML date or a string
\* that is no date; azureRoot is null, "", "./" or "/mnt/data"; directories
\* is a list, or a mapping of tiers
DataConfigs ==
    [date : {Missing, [kind |-> "date", value |-> Day1], Text(<<"not-a-date">>)},
     azureRoot : {Missing, Null, Text(<<"">>), Text(<<".", "">>),
                  Text(<<"", "mnt", "data">>)},
     aoi : {Missing, Text(<<"aoi.shp">>)},
     output_base : {Missing, Text(<<"out">>)},
     directories :
         {Missing, [kind |-> "list"],
          [kind |-> "dict",
           value |-> <<DirectoryContent("bronze", <<"sentinel2">>, <<>>, <<>>, <<>>, <<>>)>>],
          [kind |-> "dict",
           value |-> <<DirectoryContent("bronze", <<>>, <<>>,
                                        <<VectorFileName(RoadsShp)>>, <<>>, <<>>)>>]}]

\* what yaml.safe_load returns: None for an empty file, else a mapping
\* without dataConfig, with a null dataConfig, or with a mapping under it
Documents ==
    {[kind |-> "empty"], [kind |-> "mapping", dataConfig |-> Missing],
     [kind |-> "mapping", dataConfig |-> Null]}
    \cup {[kind |-> "mapping", dataConfig |-> [kind |-> "dict", value |-> d]] :
             d \in DataConfigs}

\* bool(config.azureRoot)
Truthy(azure_root) == azure_root.kind = "str" /\ azure_root.text # <<"">>

\* DataConfig(**data): pydantic requires the five fields and validates
\* their types; its ValidationError is a ValueError
DataConfig(data) ==
    IF \/ data.date.kind # "date"
       \/ data.azureRoot.kind = "missing"
       \/ data.aoi.kind # "str"
       \/ data.output_base.kind # "str"
       \/ data.directories.kind # "dict"
    THEN [status |-> "raise", error |-> "ValueError"]
    ELSE IF directories_field(data.directories.value).status = "raise"
    THEN [status |-> "raise", error |-> "ValueError"]
    ELSE [status |-> "ok",
          value |-> [date |-> data.date.value, azureRoot |-> data.azureRoot,
                     aoi |-> data.aoi.text, output_base |-> data.output_base.text,
                     directories |-> data.directories.value]]

\* build_config: config.get('dataConfig') on the loaded document
build_config(document) ==
    IF document.kind = "empty" THEN [status |-> "raise", error |-> "AttributeError"]
    ELSE IF document.dataConfig.kind = "dict" THEN DataConfig(document.dataConfig.value)
    ELSE [status |-> "raise", error |-> "ValueError"]

\* DataConfig.fs.  Without account name and key the construction of the
\* adlfs filesystem depends on the library's own environment variables.
fs_property(cfg, env) ==
    IF Truthy(cfg.azureRoot) THEN {[status |-> "ok", value |-> None]}
    ELSE IF env THEN {[status |-> "ok", value |-> "AzureBlobFileSystem"]}
    ELSE {[status |-> "ok", value |-> "AzureBlobFileSystem"],
          [status |-> "raise", error |-> "ValueError"]}

\* the variant that builds remote roots whatever the configuration
setup_remote_roots(cfg, env) ==
    [status |-> "ok",
     value |-> [tier \in Range(DirectoryType) |-> UPath(<<"az:", "", tier>>)]]

\* setup_azure_filesystem(config), the value of DataConfig.tier_roots
setup_azure_filesystem(cfg, env) ==
    IF env
    THEN [status |-> "ok",
          value |-> [tier \in Range(DirectoryType) |->
                        IF ~Truthy(cfg.azureRoot)
                        THEN UPath(<<"az:", "", tier>>)
                        ELSE joinpath(PurePath(cfg.azureRoot.text), <<tier>>)]]
    ELSE [status |-> "raise", error |-> "ValueError"]

Unread == [status |-> "unread"]

ConfigInit ==
    /\ pc = "build_config"
    /\ directive \in Documents
    /\ environ \in BOOLEAN
    /\ config = Unread
    /\ handle = Unread
    /\ tier_roots = Unread
    /\ ShIdle /\ LocIdle /\ IdxIdle /\ FltIdle /\ AoiIdle /\ VecIdle /\ ValIdle /\ RunIdle

CallBuildConfig ==
    /\ pc = "build_config"
    /\ config' = build_config(directive)
    /\ pc' = (IF config'.status = "ok" THEN "built_config" ELSE "raised_config")
    /\ UNCHANGED <<directive, environ, handle, tier_roots>>
    /\ UNCHANGED <<shVars, locVars, idxVars, fltVars, aoiVars, vecVars, valVars, runVars>>

ReadFs ==
    /\ pc = "built_config"
    /\ handle = Unread
    /\ handle' \in fs_property(config.value, environ)
    /\ UNCHANGED <<pc, directive, environ, config, tier_roots>>
    /\ UNCHANGED <<shVars, locVars, idxVars, fltVars, aoiVars, vecVars, valVars, runVars>>

ReadTierRoots ==
    /\ pc = "built_config"
    /\ tier_roots = Unread
    /\ tier_roots' = setup_azure_filesystem(config.value, environ)
    /\ UNCHANGED <<pc, directive, environ, config, handle>>
    /\ UNCHANGED <<shVars, locVars, idxVars, fltVars, aoiVars, vecVars, valVars, runVars>>

ConfigNext == CallBuildConfig \/ ReadFs \/ ReadTierRoots

SpecConfig == ConfigInit /\ [][ConfigNext]_vars

\* the directive has no dataConfig element, an invalid date, or lacks one of
\* azureRoot, aoi, directories
MustRaise(document) ==
    \/ document.kind = "empty"
    \/ document.dataConfig.kind # "dict"
    \/ LET d == document.dataConfig.value
       IN  \/ d.date.kind # "date"
           \/ d.azureRoot.kind = "missing"
           \/ d.aoi.kind = "missing"
           \/ d.directories.kind = "missing"

\* C17: build_config raises ValueError when the directive has no dataConfig
\* element, an invalid date, or no azureRoot, aoi or directories entry;
\* otherwise it returns a DataConfig holding the declared values.
C17_BuildConfigRaisesOrReturns ==
    pc \in {"built_config", "raised_config"} =>
        IF MustRaise(directive)
        THEN config.status = "raise" /\ config.error = "ValueError"
        ELSE /\ config.status = "ok"
             /\ config.value.date = directive.dataConfig.value.date.value
             /\ config.value.azureRoot = directive.dataConfig.value.azureRoot
             /\ config.value.aoi = directive.dataConfig.value.aoi.text

\* all five roots are local paths <root>/<tier>
LocalRoots(roots, root) ==
    \A tier \in Range(DirectoryType) :
        /\ roots[tier].protocol = ""
        /\ str(roots[tier]) = str(PurePath(root)) \o <<tier>>

\* all five roots are az://<tier>
RemoteRoots(roots) ==
    \A tier \in Range(DirectoryType) : str(roots[tier]) = <<"az:", "", tier>>

\* C18 as stated: once fs and tier_roots of a DataConfig are read, azureRoot
\* set means fs is None and five local roots azureRoot/<tier>, azureRoot
\* null means a remote handle and five roots az://<tier>.
C18_ModeByAzureRootAlone ==
    (pc = "built_config" /\ handle # Unread /\ tier_roots # Unread) =>
        IF config.value.azureRoot.kind = "str"
        THEN /\ handle.status = "ok" /\ handle.value = None
             /\ tier_roots.status = "ok"
             /\ LocalRoots(tier_roots.value, config.value.azureRoot.text)
        ELSE /\ handle.status = "ok" /\ handle.value # None
             /\ tier_roots.status = "ok"
             /\ RemoteRoots(tier_roots.value)

\* C18 amended: with account name and key in the environment, a non-empty
\* azureRoot means fs is None and five local roots azureRoot/<tier>, a null
\* or empty azureRoot a remote handle and five roots az://<tier>; without
\* them tier_roots raises ValueError in either mode, and fs is None exactly
\* when azureRoot is non-empty, or fails.
C18_ModeByAzureRootAndCredentials ==
    (pc = "built_config" /\ handle # Unread /\ tier_roots # Unread) =>
        LET a == config.value.azureRoot
            local == a.kind = "str" /\ a.text # <<"">>
        IN  /\ handle.status = "ok" => (handle.value = None <=> local)
            /\ handle.status = "raise" => ~environ /\ ~local
            /\ environ =>
                  /\ tier_roots.status = "ok"
                  /\ IF local THEN LocalRoots(tier_roots.value, a.text)
                     ELSE RemoteRoots(tier_roots.value)
            /\ ~environ => tier_roots.status = "raise" /\ tier_roots.error = "ValueError"

\* both modes are reached with credentials: /mnt/data gives five local
\* roots, and a null azureRoot gives a handle and az://gold
C18_Witness ==
    /\ pc = "built_config"
    /\ environ
    /\ handle.status = "ok"
    /\ tier_roots.status = "ok"
    /\ \/ /\ config.value.azureRoot = Null
          /\ handle.value = "AzureBlobFileSystem"
          /\ tier_roots.value["gold"] = AzurePath(<<"gold">>)
       \/ /\ config.value.azureRoot = Text(<<"", "mnt", "data">>)
          /\ handle.value = None
          /\ tier_roots.value["gold"] = LocalPath(<<"/", "mnt", "data", "gold">>)

(***************************************************************************)
(* copy_to_fileshare: ensure_reference_on_fileshare, upload_file_to_share  *)
(***************************************************************************)
MaxCalls == 2        \* invocations of ensure_reference_on_fileshare

max_workers == 8     \* ThreadPoolExecutor(max_workers=8)

\* the blobs of the container reference, or the files under local_folder;
\* "markers" is a folder marker, a name without a dot
ShareObjects == {"grid.gpkg", "dem.tif", "markers"}

\* how the transfer of one object ends
TransferOutcomes == {"ok", "download_fails", "upload_fails"}

\* download_and_upload passes over a name without a dot
IsFolderMarker(name) == name = "markers"

\* upload_file_to_share: `except Exception` around the upload of one file
\* logs the error and continues with the next file
LogAndContinue(name) == "running"

\* local_path.exists() in download_and_upload
Cached(cache, name) == \E c \in {"full", "empty"} : <<name, c>> \in cache

CachedContent(cache, name) == IF <<name, "full">> \in cache THEN "full" ELSE "empty"

Upload(name, content, downloaded) ==
    [name |-> name, call |-> share_calls, content |-> content, downloaded |-> downloaded]

shareRest == <<dcVars, locVars, idxVars, fltVars, aoiVars, vecVars, valVars, runVars>>

ShareInit ==
    /\ pc \in {"ensure", "upload"}
    /\ share_call = (IF pc = "upload" THEN "upload_file_to_share"
                     ELSE "ensure_reference_on_fileshare")
    /\ share_calls = 1
    /\ share_blobs \in (SUBSET ShareObjects) \ {{}}
    /\ share_reference = FALSE
    /\ share_files = {}
    /\ share_cache = {}
    /\ share_pending = (IF pc = "upload" THEN share_blobs ELSE {})
    /\ share_running = {}
    /\ share_uploaded = <<>>
    /\ share_failed = {}
    /\ share_result = "running"
    /\ DcIdle /\ LocIdle /\ IdxIdle /\ FltIdle /\ AoiIdle /\ VecIdle /\ ValIdle /\ RunIdle

\* ensure_reference_on_fileshare when the share has a directory reference:
\* it lists it and returns
ReferenceExists ==
    /\ pc = "ensure"
    /\ share_reference
    /\ pc' = "share_done"
    /\ share_result' = "returned"
    /\ UNCHANGED <<share_call, share_calls, share_blobs, share_reference, share_files,
                   share_cache, share_pending, share_running, share_uploaded,
                   share_failed>>
    /\ UNCHANGED shareRest

\* else it creates the directory, lists the blobs and submits one future per
\* blob
CreateDirectory ==
    /\ pc = "ensure"
    /\ ~share_reference
    /\ share_reference' = TRUE
    /\ share_pending' = share_blobs
    /\ pc' = "reference_missing"
    /\ UNCHANGED <<share_call, share_calls, share_blobs, share_files, share_cache,
                   share_running, share_uploaded, share_failed, share_result>>
    /\ UNCHANGED shareRest

\* a worker of the pool takes a submitted future
StartTask ==
    /\ pc = "reference_missing"
    /\ Cardinality(share_running) < max_workers
    /\ \E b \in share_pending :
         /\ share_pending' = share_pending \ {b}
         /\ share_running' = share_running \cup {b}
    /\ UNCHANGED <<pc, share_call, share_calls, share_blobs, share_reference,
                   share_files, share_cache, share_uploaded, share_failed, share_result>>
    /\ UNCHANGED shareRest

\* download_and_upload of one blob.  A file already at /tmp/<blob> is
\* uploaded as it is; a download that fails leaves the file it had opened.
DownloadAndUpload ==
    /\ pc = "reference_missing"
    /\ \E b \in share_running, t \in TransferOutcomes :
         /\ share_running' = share_running \ {b}
         /\ IF IsFolderMarker(b)
            THEN UNCHANGED <<share_cache, share_files, share_uploaded, share_failed>>
            ELSE IF Cached(share_cache, b)
            THEN /\ t # "download_fails"
                 /\ share_cache' = share_cache
                 /\ IF t = "ok"
                    THEN /\ share_files' = share_files \cup
                                              {<<b, CachedContent(share_cache, b)>>}
                         /\ share_uploaded' = Append(share_uploaded,
                                Upload(b, CachedContent(share_cache, b), FALSE))
                         /\ share_failed' = share_failed
                    ELSE /\ share_failed' = share_failed \cup {b}
                         /\ UNCHANGED <<share_files, share_uploaded>>
            ELSE IF t = "download_fails"
            THEN /\ share_cache' = share_cache \cup {<<b, "empty">>}
                 /\ share_failed' = share_failed \cup {b}
                 /\ UNCHANGED <<share_files, share_uploaded>>
            ELSE /\ share_cache' = share_cache \cup {<<b, "full">>}
                 /\ IF t = "ok"
                    THEN /\ share_files' = share_files \cup {<<b, "full">>}
                         /\ share_uploaded' = Append(share_uploaded, Upload(b, "full", TRUE))
                         /\ share_failed' = share_failed
                    ELSE /\ share_failed' = share_failed \cup {b}
                         /\ UNCHANGED <<share_files, share_uploaded>>
    /\ UNCHANGED <<pc, share_call, share_calls, share_blobs, share_reference,
                   share_pending, share_result>>
    /\ UNCHANGED shareRest

\* future.result() re-raises the exception of a failed future; the pool is
\* left when every future is done
CollectResults ==
    /\ pc = "reference_missing"
    /\ share_pending = {}
    /\ share_running = {}
    /\ pc' = "share_done"
    /\ share_result' = (IF share_failed # {} THEN "raised" ELSE "returned")
    /\ UNCHANGED <<share_call, share_calls, share_blobs, share_reference, share_files,
                   share_cache, share_pending, share_running, share_uploaded,
                   share_failed>>
    /\ UNCHANGED shareRest

\* the function is called again on the same share and container
CallAgain ==
    /\ pc = "share_done"
    /\ share_call = "ensure_reference_on_fileshare"
    /\ share_calls < MaxCalls
    /\ share_calls' = share_calls + 1
    /\ share_failed' = {}
    /\ share_result' = "running"
    /\ pc' = "ensure"
    /\ UNCHANGED <<share_call, share_blobs, share_reference, share_files, share_cache,
                   share_pending, share_running, share_uploaded>>
    /\ UNCHANGED shareRest

\* "Delete and restart if you need this reset": the operator deletes the
\* directory reference of the share between two calls
DeleteReference ==
    /\ pc = "share_done"
    /\ share_call = "ensure_reference_on_fileshare"
    /\ share_reference
    /\ share_calls < MaxCalls
    /\ share_reference' = FALSE
    /\ share_files' = {}
    /\ UNCHANGED <<pc, share_call, share_calls, share_blobs, share_cache, share_pending,
                   share_running, share_uploaded, share_failed, share_result>>
    /\ UNCHANGED shareRest

\* one iteration of the loop of upload_file_to_share over rglob("*"); uploads
\* have no download step
UploadFile ==
    /\ pc = "upload"
    /\ share_result = "running"
    /\ \E f \in share_pending, t \in TransferOutcomes \ {"download_fails"} :
         /\ share_pending' = share_pending \ {f}
         /\ IF t = "ok"
            THEN /\ share_uploaded' = Append(share_uploaded, Upload(f, "full", FALSE))
                 /\ UNCHANGED <<share_failed, share_result>>
            ELSE /\ share_failed' = share_failed \cup {f}
                 /\ share_result' = LogAndContinue(f)
                 /\ share_uploaded' = share_uploaded
    /\ UNCHANGED <<pc, share_call, share_calls, share_blobs, share_reference,
                   share_files, share_cache, share_running>>
    /\ UNCHANGED shareRest

\* the loop is over: "Upload complete!" is logged and the function returns
UploadComplete ==
    /\ pc = "upload"
    /\ share_result = "running"
    /\ share_pending = {}
    /\ pc' = "share_done"
    /\ share_result' = "returned"
    /\ UNCHANGED <<share_call, share_calls, share_blobs, share_reference, share_files,
                   share_cache, share_pending, share_running, share_uploaded,
                   share_failed>>
    /\ UNCHANGED shareRest

ShareNext ==
    \/ ReferenceExists
    \/ CreateDirectory
    \/ StartTask
    \/ DownloadAndUpload
    \/ CollectResults
    \/ CallAgain
    \/ DeleteReference
    \/ UploadFile
    \/ UploadComplete

SpecShare == ShareInit /\ [][ShareNext]_vars

\* C20: a call of ensure_reference_on_fileshare or upload_file_to_share in
\* which the download or upload of some object failed does not return
\* normally.
C20_TransferFailureVisible ==
    share_result = "returned" => share_failed = {}

\* the uploads of blob b made by the running call
UploadsOf(b) ==
    {i \in 1..Len(share_uploaded) :
        share_uploaded[i].name = b /\ share_uploaded[i].call = share_calls}

\* C27: in ensure_reference_on_fileshare at most 8 transfers are in progress
\* at once, a blob is never both waiting and in progress, every upload is
\* made by a task that downloaded the object itself, no blob is uploaded
\* twice by one call, and when the call returns normally every blob with a
\* dot in its name is on the share.
C27_PoolTransfersEachBlobOnce ==
    share_call = "ensure_reference_on_fileshare" =>
        /\ Cardinality(share_running) <= max_workers
        /\ share_pending \cap share_running = {}
        /\ \A i \in 1..Len(share_uploaded) : share_uploaded[i].downloaded
        /\ \A b \in share_blobs : Cardinality(UploadsOf(b)) <= 1
        /\ share_result = "returned" =>
              \A b \in share_blobs : ~IsFolderMarker(b) => Cached(share_files, b)

\* C30: whenever ensure_reference_on_fileshare returns normally, every blob
\* of the container with a dot in its name is on the share under
\* reference/, also when an earlier call failed after it had created the
\* directory.
C30_ReturnMeansReferenceComplete ==
    (share_call = "ensure_reference_on_fileshare" /\ share_result = "returned") =>
        \A b \in share_blobs :
            ~IsFolderMarker(b) => \E c \in {"full", "empty"} : <<b, c>> \in share_files

(***************************************************************************)
(* process_vectors, called on the vector list of one tier.  Validation     *)
(* refuses every vector descriptor, so no entry point reaches it; it is    *)
(* run here as its callers would run it.                                   *)
(***************************************************************************)
LakesGpkg == <<"l", "a", "k", "e", "s">> \o DotGpkg

SitesParquet == <<"s", "i", "t", "e", "s">> \o DotParquet

GoneGpkg == <<"g", "o", "n", "e">> \o DotGpkg

VectorNames == {RoadsGpkg, LakesGpkg, SitesParquet, GoneGpkg}

\* the features of the stored vector files: roads.gpkg has one feature on
\* the AOI of the run and one off it, lakes.gpkg none on it; gone.gpkg is
\* declared and not stored
VectorFeatures(name) ==
    IF name = RoadsGpkg
    THEN <<[fid |-> 1, geometry |-> box(0, 0, 3, 3)], [fid |-> 2, geometry |-> box(2, 2, 3, 3)]>>
    ELSE IF name = LakesGpkg
    THEN <<[fid |-> 1, geometry |-> box(2, 2, 3, 3)]>>
    ELSE <<[fid |-> 1, geometry |-> box(1, 1, 2, 2)]>>

\* vector_path.suffix as the text the subsetters compare
SuffixText(name) ==
    IF Suffix(name) = DotGpkg THEN GPKG
    ELSE IF Suffix(name) = DotParquet THEN PARQUET
    ELSE ".other"

\* the variant that never raises for a missing file
WarnOnly(flag) == "warn"

\* the else branch of the existence check
MissingVector(flag) == IF flag THEN "raise" ELSE "warn"

VectorsInit ==
    /\ pc = "item"
    /\ entry = "process_vectors"
    /\ azureRoot \in BOOLEAN
    /\ error_for_missing_files \in BOOLEAN
    /\ aoi_gdf = RunAoi
    /\ \E tier \in Tiers, names \in Listings(VectorNames, MaxFiles) \ {<<>>} :
         /\ directories = <<DirectoryContent(tier, <<>>, <<>>,
                              [k \in 1..Len(names) |-> VectorFileName(names[k])],
                              <<>>, <<>>)>>
         /\ source = [dirs |-> [key \in Tiers \X Datasets |-> Absent],
                      files |-> {<<tier, n>> : n \in VectorNames \ {GoneGpkg}},
                      json |-> {}, emptied |-> {}]
    /\ pos = [ti |-> 1, kind |-> "vector", k |-> 1]
    /\ staging = {} /\ output = {} /\ events = {} /\ processed = <<>>
    /\ rasters = <<>> /\ hdf_tiles = <<>>
    /\ raised = None /\ valid = None
    /\ MiscIdle /\ LocIdle /\ IdxIdle /\ FltIdle /\ VecIdle

\* one iteration of process_vectors
ProcessVector ==
    /\ pc = "item"
    /\ pos.kind = "vector"
    /\ LET tier == directories[pos.ti].tier
           vector_file == directories[pos.ti].vector[pos.k]
           there == <<tier, vector_file.name>> \in source.files
           item == Entry(pos.ti, "vector", vector_file.name, ~there, None)
           got == IF azureRoot
                  THEN read_vector_subset(SuffixText(vector_file.name),
                                          VectorFeatures(vector_file.name), aoi_gdf)
                  ELSE copy_vector_data_from_azure(SuffixText(vector_file.name),
                                                   VectorFeatures(vector_file.name), aoi_gdf)
       IN  IF there /\ got.status = "ok"
           THEN /\ output' = output \cup {[dest |-> <<tier, vector_file.name>>,
                                           from |-> <<tier, vector_file.name>>,
                                           content |-> got.features]}
                /\ events' = events \cup {"write_output"}
                /\ processed' = Append(processed,
                       [item EXCEPT !.outcome = "copied",
                                    !.warned = IF got.features = <<>>
                                               THEN {<<tier, vector_file.name>>}
                                               ELSE {}])
                /\ MoveTo(Advance(entry, directories, pos))
                /\ raised' = raised
           ELSE IF there
           THEN /\ pc' = "raised"
                /\ raised' = [type |-> got.error, at |-> "vector"]
                /\ processed' = Append(processed, [item EXCEPT !.outcome = "raised"])
                /\ UNCHANGED <<output, events, pos>>
           ELSE IF MissingVector(error_for_missing_files) = "raise"
           THEN /\ pc' = "raised"
                /\ raised' = [type |-> "FileNotFoundError", at |-> "vector"]
                /\ processed' = Append(processed, [item EXCEPT !.outcome = "raised"])
                /\ UNCHANGED <<output, events, pos>>
           ELSE /\ processed' = Append(processed,
                       [item EXCEPT !.outcome = "skipped",
                                    !.warned = {<<tier, vector_file.name>>}])
                /\ MoveTo(Advance(entry, directories, pos))
                /\ UNCHANGED <<output, events, raised>>
    /\ UNCHANGED <<cfgVars, otherVars, aoi_gdf, valid, source, staging, rasters,
                   hdf_tiles>>

SpecVectors == VectorsInit /\ [][ProcessVector]_vars

\* C21: process_vectors handles its declared files in order.  A missing file
\* under the strict flag ends the call with FileNotFoundError, with nothing
\* written for it and no later file handled; under the lenient flag it is
\* logged, nothing is written for it, and the next file is handled.  A
\* stored file is written with exactly its features on the AOI, with a
\* warning and no error when there are none.
C21_VectorExistenceThenSubset ==
    /\ pc = "item" => pos.k = Len(processed) + 1
    /\ pc = "tier_loop" => Len(processed) = Len(directories[1].vector)
    /\ pc = "raised" => processed[Len(processed)].outcome = "raised"
    /\ \A i \in 1..Len(processed) :
          LET e == processed[i]
              written == {o \in output : o.dest = <<e.tier, e.id>>}
              Meets(f) == \E a \in aoi_gdf : \E pt \in f.geometry : pt \in a
          IN  /\ e.id = directories[1].vector[i].name
              /\ e.miss <=> (e.id = GoneGpkg)
              /\ (e.miss /\ error_for_missing_files) =>
                    /\ e.outcome = "raised"
                    /\ raised.type = "FileNotFoundError"
                    /\ i = Len(processed)
                    /\ written = {}
              /\ (e.miss /\ ~error_for_missing_files) =>
                    /\ e.outcome = "skipped"
                    /\ e.warned # {}
                    /\ written = {}
              /\ ~e.miss =>
                    /\ e.outcome = "copied"
                    /\ \E o \in written :
                          o.content = SelectSeq(VectorFeatures(e.id), Meets)
                    /\ e.warned # {} <=> (SelectSeq(VectorFeatures(e.id), Meets) = <<>>)

\* lenient run: gone.gpkg is passed over and lakes.gpkg, which has nothing
\* on the AOI, is written empty after it
C21_Witness ==
    /\ pc = "tier_loop"
    /\ ~error_for_missing_files
    /\ Len(processed) = 2
    /\ processed[1].outcome = "skipped"
    /\ processed[2].id = LakesGpkg
    /\ processed[2].warned # {}
    /\ \E o \in output : o.dest[2] = LakesGpkg /\ o.content = <<>>

(***************************************************************************)
(* Granule lists across the datasets of a tier                             *)
(***************************************************************************)
\* C22: without the strict flag, no file is staged under
\* <output_base>/<tier>/<dataset>/ for a dataset whose directory is missing,
\* and every file staged under a dataset was found in that dataset's own
\* directory.
C22_NoStagingFromOtherDataset ==
    ~error_for_missing_files =>
        \A o \in output :
            Len(o.dest) = 3 =>
                /\ source.dirs[<<o.dest[1], o.dest[2]>>].exists
                /\ o.from[2] = o.dest[2]

(***************************************************************************)
(* Frames of the rectangles of a raster index                              *)
(***************************************************************************)
\* C23: in an index build_tile_index returns, the rectangle of every file
\* with a native frame is expressed in EPSG:4326: it is the file's box when
\* the file is in that frame, and the reprojected box otherwise, at whatever
\* position of the batch the file stands.
C23_EveryRectangleCanonical ==
    (pc = "returned_tile_index" /\ built.status = "ok") =>
        \A k \in 1..Len(paths) :
            LET src == Disk(paths[k])
            IN  src.crs # None =>
                    built.records[k].geometry =
                        (IF src.crs = WGS84 THEN make_tile_bounds_geom(src)
                         ELSE to_crs(src.crs, make_tile_bounds_geom(src)))

(***************************************************************************)
(* Sidecars of landsat granules, and the source tree                       *)
(***************************************************************************)
\* the sidecar of the granule an output file was copied from is stored
SidecarStored(o) ==
    <<o.from[1], o.from[2], JsonName(o.from[3])>> \in (source.json \cup source.emptied)

\* C24: once a landsat granule is copied and its sidecar exists at the
\* source, the sidecar is in the output tree next to the granule, at
\* <output_base>/<tier>/landsat/<sidecar filename>.
C24_SidecarStagedNextToGranule ==
    \A o \in output :
        (Len(o.dest) = 3 /\ o.dest[2] = "landsat" /\ o.from[2] = "landsat"
            /\ SidecarStored(o)) =>
            \E j \in output : j.dest = <<o.dest[1], "landsat", JsonName(o.dest[3])>>

\* C25: a failure of the sidecar copy never leaves copy_raster_files: once a
\* granule of a stored landsat batch is copied, the dataset does not end in
\* an exception and every granule of the batch on the AOI is copied.
C25_SidecarFailureOnlyWarns ==
    \A i \in 1..Len(processed) :
        (/\ processed[i].kind = "raster" /\ processed[i].id = "landsat"
         /\ ~processed[i].miss
         /\ \E o \in output : Len(o.dest) = 3 /\ o.dest[1] = processed[i].tier
                                /\ o.dest[2] = "landsat") =>
            /\ processed[i].outcome # "raised"
            /\ \A n \in LandsatGranules :
                  \E o \in output : o.dest = <<processed[i].tier, "landsat", n>>

\* C29: no run creates, empties or changes a file of the source tiers: the
\* stored sidecars keep their content and no write goes to the source tree.
C29_SourceUntouched ==
    /\ source.emptied = {}
    /\ "write_source" \notin events

(***************************************************************************)
(* The two modes of the orchestrator                                       *)
(***************************************************************************)
\* the declared tabular files that are stored and the declared HDF datasets
\* with a granule on the AOI: what a completed local-path run stages for
\* these kinds
StagedInLocalMode ==
    UNION {
        {<<directories[t].tier, directories[t].table[k].name>> :
            k \in {j \in 1..Len(directories[t].table) :
                     <<directories[t].tier, directories[t].table[j].name>> \in source.files}}
        \cup
        {<<directories[t].tier, directories[t].hdf[k], "h1.hdf">> :
            k \in {j \in 1..Len(directories[t].hdf) :
                     source.dirs[<<directories[t].tier, directories[t].hdf[j]>>]
                        = Holds(<<"h1.hdf">>)}} :
        t \in 1..Len(directories)}

\* C26: a completed run stages the same HDF granules and tabular files in
\* remote-filesystem mode (process_fsspec) as in local-path mode (process).
C26_SameArtifactsInBothModes ==
    (pc = "done" /\ entry \in {"process", "process_fsspec"}) =>
        \A d \in StagedInLocalMode : \E o \in output : o.dest = d

============================================================================
